---- MODULE Spec2Model ----
(***************************************************************************)
(* A model of the IIIF 3D manifest importer and exporter of the Blender    *)
(* plugin: src/modules/importer.py, src/modules/exporter.py and the        *)
(* helpers in src/modules/utils and src/modules/metadata.py.               *)
(*                                                                         *)
(* JSON values are tagged records (field k names the Python type), so that *)
(* the type tests of the code (type(x) is dict, isinstance(x, list)) and   *)
(* the exceptions Python raises on a wrong shape can be modelled.          *)
(*                                                                         *)
(* Numbers: coordinates and scale factors are integers; angles are whole   *)
(* degrees, multiples of 90 wherever a rotation is composed or decomposed, *)
(* so that the quaternion and matrix arithmetic of mathutils is exact in   *)
(* Z[sqrt 2]: the pair <<a, b>> stands for a + b*sqrt(2).                  *)
(***************************************************************************)
EXTENDS Integers, Sequences, FiniteSets, TLC

VARIABLES
    collections,    \* bpy.data.collections, in creation order
    objects,        \* bpy.data.objects, in creation order
    scene_props,    \* the iiif_manifest_* properties of bpy.context.scene
    world,          \* bpy.context.scene.world: use_nodes and the Background colour
    active_collection, \* the collection of view_layer.active_layer_collection
    log,            \* what the last operator call logged or reported
    manifest,       \* content of the file read by the last import
    import_result,  \* outcome of the last ImportIIIF3DManifest.execute
    out_file,       \* content of the file written by the last export
    export_result,  \* outcome of the last ExportIIIF3DManifest.execute
    imports,        \* number of import calls so far
    last_op,        \* the operator that ran last
    network,        \* what fetching and decoding each asset URL yields
    coord           \* the value under conversion by the Coordinates or
                    \* json_patterns functions, or the resource looked up
                    \* by the navigation functions

vars == <<collections, objects, scene_props, world, active_collection, log, manifest,
          import_result, out_file, export_result, imports, last_op, network, coord>>

sceneVars == <<collections, objects, scene_props, world, active_collection, log, manifest,
               import_result, out_file, export_result, imports, last_op, network>>

-----------------------------------------------------------------------------
(* JSON values *)

JNull == [k |-> "null"]
JStr(s) == [k |-> "str", s |-> s]
JNum(n) == [k |-> "num", n |-> n]
JBool(b) == [k |-> "bool", b |-> b]
JList(l) == [k |-> "list", l |-> l]
JObj(f) == [k |-> "dict", f |-> f]

IsNull(j) == j.k = "null"
IsStr(j) == j.k = "str"
IsNum(j) == j.k = "num"
IsList(j) == j.k = "list"
IsDict(j) == j.k = "dict"

\* key in obj
Has(j, key) == key \in DOMAIN j.f

\* obj.get(key, default)
GetD(j, key, default) == IF key \in DOMAIN j.f THEN j.f[key] ELSE default

\* obj.get(key)
Get(j, key) == GetD(j, key, JNull)

\* obj[key] = value
Put(j, key, value) == JObj((key :> value) @@ j.f)

\* obj.pop(key, None)
Pop(j, key) == JObj([x \in (DOMAIN j.f) \ {key} |-> j.f[x]])

\* bool(x) of Python
Truthy(j) ==
    CASE j.k = "null" -> FALSE
      [] j.k = "str" -> j.s # ""
      [] j.k = "num" -> j.n # 0
      [] j.k = "bool" -> j.b
      [] j.k = "list" -> j.l # <<>>
      [] j.k = "dict" -> DOMAIN j.f # {}
      [] OTHER -> TRUE

-----------------------------------------------------------------------------
(* src/modules/utils/json_patterns.py *)

\* force_as_object writing the type whether or not one is given
force_as_typed_object(json_data, default_type) ==
    IF IsNull(json_data) \/ IsDict(json_data)
    THEN json_data
    ELSE JObj([id |-> json_data, type |-> default_type])

\* force_as_singleton taking the last element of a list
force_as_last(obj) ==
    IF IsNull(obj) \/ (IsList(obj) /\ obj.l = <<>>)
    THEN JNull
    ELSE IF IsList(obj) THEN obj.l[Len(obj.l)] ELSE obj

\* force_as_object raises ValueError for anything but None, a dict or a str
force_as_object_raises(json_data) ==
    ~(IsNull(json_data) \/ IsDict(json_data) \/ IsStr(json_data))

\* force_as_object, for an argument it does not raise on; default_type is
\* a JSON string or JNull (Python None)
force_as_object(json_data, default_type) ==
    IF IsNull(json_data) \/ IsDict(json_data)
    THEN json_data
    ELSE IF Truthy(default_type)
         THEN JObj([id |-> json_data, type |-> default_type])
         ELSE JObj([id |-> json_data])

\* the warning of force_as_singleton: a list whose length is not 1
force_as_singleton_warns(obj) ==
    IsList(obj) /\ obj.l # <<>> /\ Len(obj.l) # 1

force_as_singleton(obj) ==
    IF IsNull(obj) \/ (IsList(obj) /\ obj.l = <<>>)
    THEN JNull
    ELSE IF IsList(obj) THEN obj.l[1] ELSE obj

force_as_list(obj) ==
    IF IsNull(obj) THEN <<>>
    ELSE IF ~IsList(obj) THEN <<obj>> ELSE obj.l

\* float(v) of Python: a number or a boolean converts, every other JSON
\* value raises (the strings of this model are not numerals)
float_raises(v) == ~(v.k = "num" \/ v.k = "bool")

float_of(v) == IF v.k = "bool" THEN (IF v.b THEN 1 ELSE 0) ELSE v.n

\* axes_named_values raises AttributeError on a value without .get and
\* TypeError / ValueError on a component float() rejects
axes_named_values_raises(xyzObj) ==
    IF ~IsDict(xyzObj) THEN TRUE
    ELSE \E a \in {"x", "y", "z"} : float_raises(GetD(xyzObj, a, JNum(0)))

axes_named_values(xyzObj) ==
    << float_of(GetD(xyzObj, "x", JNum(0))),
       float_of(GetD(xyzObj, "y", JNum(0))),
       float_of(GetD(xyzObj, "z", JNum(0))) >>

\* create_axes_named_values(type, values): the resource {type, x, y, z}
create_axes_named_values(type, values) ==
    JObj([type |-> JStr(type), x |-> values[1], y |-> values[2], z |-> values[3]])

\* get_source_resource(resource): the source of a SpecificResource, the
\* resource itself otherwise
get_source_resource(resource) ==
    IF IsDict(resource) /\ Get(resource, "type") = JStr("SpecificResource")
    THEN force_as_singleton(Get(resource, "source"))
    ELSE resource

-----------------------------------------------------------------------------
(* Exact arithmetic of mathutils on rotations by multiples of 90 degrees.   *)
(* A number a + b*sqrt(2) is the pair <<a, b>>.                             *)

ZAdd(x, y) == <<x[1] + y[1], x[2] + y[2]>>
ZNeg(x) == <<-x[1], -x[2]>>
ZSub(x, y) == <<x[1] - y[1], x[2] - y[2]>>
ZMul(x, y) == <<x[1] * y[1] + 2 * x[2] * y[2], x[1] * y[2] + x[2] * y[1]>>
ZInt(n) == <<n, 0>>

\* 2*cos(h) and 2*sin(h) for the half angle h = deg/2, deg a multiple of 90
Cos2Table == << <<2, 0>>, <<0, 1>>, <<0, 0>>, <<0, -1>>,
                <<-2, 0>>, <<0, -1>>, <<0, 0>>, <<0, 1>> >>
Cos2Half(deg) == Cos2Table[((deg \div 90) % 8) + 1]
Sin2Half(deg) == Cos2Half(deg - 180)

\* atan2(y, x) in degrees for y, x in {-1, 0, 1}
Atan2Deg(y, x) ==
    CASE y = 0 /\ x >= 0 -> 0
      [] y = 0 /\ x < 0 -> 180
      [] y > 0 /\ x = 0 -> 90
      [] y < 0 /\ x = 0 -> -90
      [] y > 0 /\ x > 0 -> 45
      [] y > 0 /\ x < 0 -> 135
      [] y < 0 /\ x > 0 -> -45
      [] y < 0 /\ x < 0 -> -135

Abs(n) == IF n < 0 THEN -n ELSE n

\* the axis table of Blender's rotation orders: axes i, j, k (1-based)
\* and the parity of the permutation
RotOrderInfo(order) ==
    CASE order = "XYZ" -> [axis |-> <<1, 2, 3>>, parity |-> FALSE]
      [] order = "XZY" -> [axis |-> <<1, 3, 2>>, parity |-> TRUE]
      [] order = "YXZ" -> [axis |-> <<2, 1, 3>>, parity |-> TRUE]
      [] order = "YZX" -> [axis |-> <<2, 3, 1>>, parity |-> FALSE]
      [] order = "ZXY" -> [axis |-> <<3, 1, 2>>, parity |-> FALSE]
      [] order = "ZYX" -> [axis |-> <<3, 2, 1>>, parity |-> TRUE]

\* the value v bound to the name a step uses it under
Let(v, step(_)) == step(v)

\* a call by name of an operator that several call sites reach (Python
\* looks a method up by name at every call); defined after the operators
RECURSIVE Call(_, _)

\* Euler.to_quaternion (eulO_to_quat): the components w, x, y, z, each
\* scaled by 8; e is the angle triple in degrees.  h holds ci, cj, ch, si,
\* sj, sh; p holds cc, cs, sc, ss; a holds w, a[i], a[j], a[k] of the code.
EulerToQuat(e, order) ==
    Let(RotOrderInfo(order), LAMBDA R :
    Let(IF R.parity THEN -e[R.axis[2]] ELSE e[R.axis[2]], LAMBDA tj :
    Let(<< Cos2Half(e[R.axis[1]]), Cos2Half(tj), Cos2Half(e[R.axis[3]]),
           Sin2Half(e[R.axis[1]]), Sin2Half(tj), Sin2Half(e[R.axis[3]]) >>,
        LAMBDA h :
    Let(<< ZMul(h[1], h[3]), ZMul(h[1], h[6]), ZMul(h[4], h[3]), ZMul(h[4], h[6]) >>,
        LAMBDA p :
    Let(<< ZAdd(ZMul(h[2], p[1]), ZMul(h[5], p[4])),
           ZSub(ZMul(h[2], p[3]), ZMul(h[5], p[2])),
           ZAdd(ZMul(h[2], p[4]), ZMul(h[5], p[1])),
           ZSub(ZMul(h[2], p[2]), ZMul(h[5], p[3])) >>,
        LAMBDA a :
    Let([n \in 1..3 |-> IF n = R.axis[1] THEN a[2]
                        ELSE IF n = R.axis[2]
                             THEN (IF R.parity THEN ZNeg(a[3]) ELSE a[3])
                             ELSE a[4]],
        LAMBDA out : << a[1], out[1], out[2], out[3] >>))))))

\* quat_to_mat3 for a unit quaternion scaled by 8: m[a][b] in {-1, 0, 1}.
\* P(x, y) is 32 times the product (sqrt(2) x)(sqrt(2) y) of the code.
QuatToMat(q) ==
    LET P(x, y) == ZMul(x, y)[1]
        qda == P(q[1], q[2])
        qdb == P(q[1], q[3])
        qdc == P(q[1], q[4])
        qaa == P(q[2], q[2])
        qab == P(q[2], q[3])
        qac == P(q[2], q[4])
        qbb == P(q[3], q[3])
        qbc == P(q[3], q[4])
        qcc == P(q[4], q[4])
    IN << << (32 - qbb - qcc) \div 32, (qdc + qab) \div 32, (-qdb + qac) \div 32 >>,
          << (-qdc + qab) \div 32, (32 - qaa - qcc) \div 32, (qda + qbc) \div 32 >>,
          << (qdb + qac) \div 32, (-qda + qbc) \div 32, (32 - qaa - qbb) \div 32 >> >>

\* mat3_normalized_to_eulO: the two decompositions of mat3_normalized_to_eulo2
\* and the choice of the one with the smaller sum of absolute angles
AbsSum(e) == Abs(e[1]) + Abs(e[2]) + Abs(e[3])

MatToEuler(m, order) ==
    Let(RotOrderInfo(order), LAMBDA R :
    Let([i |-> R.axis[1], j |-> R.axis[2], kk |-> R.axis[3],
         cy |-> IF m[R.axis[1]][R.axis[1]] # 0 \/ m[R.axis[1]][R.axis[2]] # 0
                THEN 1 ELSE 0,
         sgn |-> IF R.parity THEN -1 ELSE 1],
        LAMBDA x :
    Let([n \in 1..3 |->
           IF x.cy > 0
           THEN (IF n = x.i THEN Atan2Deg(m[x.j][x.kk], m[x.kk][x.kk])
                 ELSE IF n = x.j THEN Atan2Deg(-m[x.i][x.kk], x.cy)
                 ELSE Atan2Deg(m[x.i][x.j], m[x.i][x.i]))
           ELSE (IF n = x.i THEN Atan2Deg(-m[x.kk][x.j], m[x.j][x.j])
                 ELSE IF n = x.j THEN Atan2Deg(-m[x.i][x.kk], x.cy)
                 ELSE 0)],
        LAMBDA e1 :
    Let([n \in 1..3 |->
           IF x.cy > 0
           THEN (IF n = x.i THEN Atan2Deg(-m[x.j][x.kk], -m[x.kk][x.kk])
                 ELSE IF n = x.j THEN Atan2Deg(-m[x.i][x.kk], -x.cy)
                 ELSE Atan2Deg(-m[x.i][x.j], -m[x.i][x.i]))
           ELSE e1[n]],
        LAMBDA e2 :
    Let(IF AbsSum(e1) > AbsSum(e2) THEN e2 ELSE e1,
        LAMBDA best : << x.sgn * best[1], x.sgn * best[2], x.sgn * best[3] >>)))))

\* mathutils values: Euler(angles, order) and Quaternion
Euler(angles, order) == [k |-> "Euler", v |-> angles, order |-> order]
Quaternion(q) == [k |-> "Quaternion", q |-> q]

\* Quaternion.to_euler(order)
QuatToEuler(q, order) == Euler(MatToEuler(QuatToMat(q), order), order)

\* math.degrees of a raw quaternion component c/8, to the nearest degree
DegreesOfRaw(c) ==
    Let(c[1] * 57296 + c[2] * 81029     \* 1000 * 8 * degrees
    , LAMBDA n :
    IF n >= 0 THEN (n + 4000) \div 8000 ELSE -((-n + 4000) \div 8000))

\* math.degrees(rotation.x / .y / .z) as the code reads them from the
\* value it was given: an angle of an Euler, a component of a Quaternion
RawAxisDegrees(rotation, n) ==
    IF rotation.k = "Euler" THEN rotation.v[n]
    ELSE DegreesOfRaw(rotation.q[n + 1])

-----------------------------------------------------------------------------
(* src/modules/utils/coordinates.py *)

\* the axis permutation without the change of sign
position_without_sign(iiif_coords) ==
    << iiif_coords[1], iiif_coords[3], iiif_coords[2] >>

iiif_position_to_blender_vector(iiif_coords) ==
    << iiif_coords[1], -iiif_coords[3], iiif_coords[2] >>

blender_vector_to_iiif_position(vec) ==
    << vec[1], vec[3], -vec[2] >>

model_transform_angles_to_blender_euler(angles) ==
    Euler(<< angles[1], -angles[3], angles[2] >>, "YZX")

coerce_to_euler(rotation, order) ==
    IF rotation.k = "Euler" /\ rotation.order # order
    THEN Call("QuatToEuler", <<Call("EulerToQuat", <<rotation.v, rotation.order>>), order>>)
    ELSE IF rotation.k = "Quaternion"
         THEN Call("QuatToEuler", <<rotation.q, order>>)
         ELSE rotation

\* the angles of the YZX Euler read off in the order x, y, z
euler_angles_as_stored(rotation) ==
    Let(Call("coerce_to_euler", <<rotation, "YZX">>), LAMBDA euler_rotation :
    << euler_rotation.v[1], euler_rotation.v[2], euler_rotation.v[3] >>)

blender_rotation_to_model_transform_angles(rotation) ==
    Let(Call("coerce_to_euler", <<rotation, "YZX">>), LAMBDA euler_rotation :
    << euler_rotation.v[1], euler_rotation.v[3], -euler_rotation.v[2] >>)

camera_transform_angles_to_blender_euler(angles) ==
    Euler(<< angles[1] + 90, angles[2], angles[3] >>, "ZYX")

\* the code computes euler_rotation and then reads x, y, z of the argument
blender_rotation_to_camera_transform_angles(rotation) ==
    << RawAxisDegrees(rotation, 1) - 90,
       RawAxisDegrees(rotation, 2),
       RawAxisDegrees(rotation, 3) >>

-----------------------------------------------------------------------------
(* src/modules/utils/color.py: colours are strings; the channels are kept   *)
(* as integers 0..255 (the float channel times 255).                        *)

HexColors == {"#ff0000", "#0000ff"}

hex_to_rgba_raises(hex_color) ==
    ~(IsStr(hex_color) /\ hex_color.s \in HexColors)

hex_to_rgba(hex_color) ==
    IF hex_color.s = "#ff0000" THEN <<255, 0, 0, 255>> ELSE <<0, 0, 255, 255>>

rgba_to_hex(rgba) ==
    IF rgba[1] = 255 /\ rgba[2] = 0 /\ rgba[3] = 0 THEN "#ff0000"
    ELSE IF rgba[1] = 0 /\ rgba[2] = 0 /\ rgba[3] = 255 THEN "#0000ff"
    ELSE "#other"

-----------------------------------------------------------------------------
(* The scene graph of the host.  A collection is [name, parent, props]; the *)
(* parent "" is the scene's root collection.  An object is a record of its  *)
(* type, the collection it is linked to, its transform, its custom          *)
(* properties and its data block.  st is the state an operator call works   *)
(* on; st.exc names the Python exception in flight ("none" when there is    *)
(* none).                                                                   *)

ROOT == ""

\* json.dumps / json.loads: the text of a JSON value, and back
json_dumps(j) == [k |-> "json", text |-> j]
json_loads(t) == t.text

\* logger.warning / logger.error and self.report({"WARNING"} / {"ERROR"});
\* DEBUG and INFO messages are not kept
Log(st, via, level, msg) ==
    [st EXCEPT !.log = Append(@, [via |-> via, level |-> level, msg |-> msg])]

Raise(st, exception) == [st EXCEPT !.exc = exception]

\* run step on st unless an exception is in flight
Bind(st, step(_)) == IF st.exc # "none" THEN st ELSE step(st)

\* force_as_singleton(obj) called on st: its warning, if any
SingletonLog(st, obj) ==
    IF force_as_singleton_warns(obj)
    THEN Log(st, "logger", "WARNING", "list coerced to singleton")
    ELSE st

CollectionNames(colls) == {colls[n].name : n \in 1..Len(colls)}

CollectionIndex(colls, name) ==
    CHOOSE n \in 1..Len(colls) : colls[n].name = name

\* coll[key] = value on the collection called name
SetCollectionProp(st, name, key, value) ==
    Let(CollectionIndex(st.collections, name), LAMBDA n :
    [st EXCEPT !.collections[n].props = (key :> value) @@ @])

\* obj[key] = value on object number n
SetObjectProp(st, n, key, value) ==
    [st EXCEPT !.objects[n].props = (key :> value) @@ @]

\* x.get("label", {}).get("en", [default])[0]: AttributeError when label is
\* not a dict, IndexError when en is an empty list
label_en_raises(data) ==
    Let(GetD(data, "label", JObj(<<>>)), LAMBDA label :
    IF ~IsDict(label) THEN TRUE
       ELSE Let(GetD(label, "en", JList(<<JNull>>)), LAMBDA en :
            ~IsList(en) \/ en.l = <<>>))

label_en(data, default) ==
    GetD(GetD(data, "label", JObj(<<>>)), "en", JList(<<default>>)).l[1]

-----------------------------------------------------------------------------
(* src/modules/metadata.py *)

\* datetime.now().isoformat() is not modelled in detail
Now == JStr("import_date")

\* the manifest stored without the type tag
store_manifest_untagged(st, name, data) ==
    Let(SetCollectionProp(st, name, "iiif_manifest", json_dumps(data)), LAMBDA s1 :
    IF ~IsDict(data) THEN Raise(s1, "AttributeError")
       ELSE SetCollectionProp(s1, name, "iiif_id",
                              GetD(data, "id", JStr("not_supplied"))))

store_manifest(st, name, data) ==
    Let(SetCollectionProp(st, name, "iiif_manifest", json_dumps(data)), LAMBDA s1 :
    Let(SetCollectionProp(s1, name, "iiif_import_date", Now), LAMBDA s2 :
    Let(SetCollectionProp(s2, name, "iiif_type", JStr("Manifest")), LAMBDA s3 :
    IF ~IsDict(data) THEN Raise(s3, "AttributeError")
       ELSE SetCollectionProp(s3, name, "iiif_id",
                              GetD(data, "id", JStr("not_supplied"))))))

store_scene(st, name, data) ==
    Let(SetCollectionProp(st, name, "iiif_scene", json_dumps(data)), LAMBDA s1 :
    Let(SetCollectionProp(s1, name, "iiif_type", JStr("Scene")), LAMBDA s2 :
    IF Has(data, "id")
       THEN SetCollectionProp(s2, name, "iiif_id", Get(data, "id"))
       ELSE s2))

store_annotation(st, n, data) ==
    Let(SetObjectProp(st, n, "iiif_annotation", json_dumps(data)), LAMBDA s1 :
    Let(IF Has(data, "body")
        THEN SetObjectProp(s1, n, "iiif_body", json_dumps(Get(data, "body")))
        ELSE s1, LAMBDA s2 :
    Let(IF Has(data, "id")
        THEN SetObjectProp(s2, n, "iiif_id", Get(data, "id"))
        ELSE s2, LAMBDA s3 :
    IF Has(data, "type")
       THEN SetObjectProp(s3, n, "iiif_type", Get(data, "type"))
       ELSE s3)))

\* props.get(key) followed by json.loads(data) if data else None
get_stored(props, key) ==
    IF key \in DOMAIN props THEN json_loads(props[key]) ELSE JNull

get_manifest(props) == get_stored(props, "iiif_manifest")
get_annotation(props) == get_stored(props, "iiif_annotation")
get_scene(props) == get_stored(props, "iiif_scene")

-----------------------------------------------------------------------------
(* Host objects *)

IdentityQuat == Quaternion(<< <<8, 0>>, <<0, 0>>, <<0, 0>>, <<0, 0>> >>)

\* direction.to_track_quat("-Z", "Y"): kept as the direction it tracks
TrackQuat(direction) == [k |-> "Quaternion", track |-> direction]

IsTrackQuat(q) == "track" \in DOMAIN q

\* the name Blender gives a new datablock: the requested name, made unique
\* by a numeric suffix when objects of that name exist
UniqueName(objs, name) ==
    Let(Cardinality({n \in 1..Len(objs) : objs[n].name.s = name.s}), LAMBDA used :
    IF used = 0 THEN name ELSE [k |-> "str", s |-> name.s, dup |-> used])

\* an f-string of a prefix and a value
Fmt(prefix, value) == [k |-> "str", fmt |-> prefix, arg |-> value]

\* bpy.data.objects.new(name, data): identity transform, mode XYZ
NewObject(objs, type, name, data) ==
    [ type |-> type, name |-> UniqueName(objs, name), coll |-> "<unlinked>",
      location |-> <<0, 0, 0>>, rotation_mode |-> "XYZ",
      rotation_euler |-> <<0, 0, 0>>, rotation_quaternion |-> IdentityQuat,
      scale |-> <<1, 1, 1>>, props |-> <<>>, data |-> data ]

\* obj.rotation_mode = mode (BKE_rotMode_change_values): the values of the
\* new representation are computed from the old one when one of the two is
\* a quaternion; between two Euler orders the angles are kept
SetRotationMode(obj, mode) ==
    IF obj.rotation_mode = mode THEN obj
    ELSE IF mode = "QUATERNION"
         THEN [obj EXCEPT !.rotation_mode = mode,
                          !.rotation_quaternion =
                              Quaternion(Call("EulerToQuat", <<obj.rotation_euler,
                                                     obj.rotation_mode>>))]
         ELSE IF obj.rotation_mode = "QUATERNION"
                 /\ ~IsTrackQuat(obj.rotation_quaternion)
              THEN [obj EXCEPT !.rotation_mode = mode,
                               !.rotation_euler =
                                   MatToEuler(QuatToMat(obj.rotation_quaternion.q),
                                              mode)]
              ELSE [obj EXCEPT !.rotation_mode = mode]

VecAdd(a, b) == << a[1] + b[1], a[2] + b[2], a[3] + b[3] >>
VecSub(a, b) == << a[1] - b[1], a[2] - b[2], a[3] - b[3] >>

\* obj[key] = value: an ID property cannot hold None
SetObjectPropChecked(st, n, key, value) ==
    IF IsNull(value) THEN Raise(st, "TypeError")
    ELSE SetObjectProp(st, n, key, value)

-----------------------------------------------------------------------------
(* src/modules/importer.py *)

\* The outcome of fetching and decoding an asset is the environment's
\* choice: env.asset[url] is one of AssetOutcomes, env.location the
\* location of the root node of a decoded asset.
AssetOutcomes == {"ok", "download_fails", "decode_fails"}

\* os.path.splitext(url)[1] of the URLs of this model
GltfURLs == {"m.glb", "n.glb"}
OtherURLs == {"t.obj"}
ModelURLs == GltfURLs \cup OtherURLs

\* download_model: reports the error and re-raises
download_model(st, env, url) ==
    IF ~IsStr(url) THEN Raise(st, "TypeError")
    ELSE IF url.s \notin ModelURLs \/ env.asset[url.s] = "download_fails"
         THEN Raise(Log(st, "report", "ERROR", "Error downloading model"),
                    "URLError")
         ELSE st

\* import_model: ValueError for an extension other than .glb / .gltf,
\* otherwise bpy.ops.import_scene.gltf, which links the new object to the
\* active collection and makes it the active and selected object
import_model(st, env, url) ==
    IF url.s \notin GltfURLs THEN Raise(st, "ValueError")
    ELSE IF env.asset[url.s] = "decode_fails" THEN Raise(st, "RuntimeError")
    ELSE Let([NewObject(st.objects, "MESH", JStr("Mesh"),
                        [kind |-> "mesh"])
                EXCEPT !.coll = st.active_collection,
                       !.location = env.location,
                       !.rotation_mode = "QUATERNION"], LAMBDA mesh :
         [st EXCEPT !.objects = Append(@, mesh)])

\* get_annotation_bounds_center: the centre of the world bounds of the
\* objects tagged with the annotation id; an object's bounds are its origin
MinOf(S) == CHOOSE x \in S : \A y \in S : x <= y
MaxOf(S) == CHOOSE x \in S : \A y \in S : x >= y

get_annotation_bounds_center(st, annotation_id) ==
    LET annotation_objects ==
            {n \in 1..Len(st.objects) :
                "annotation_id" \in DOMAIN st.objects[n].props
                /\ st.objects[n].props["annotation_id"] = annotation_id}
        C(a) == {st.objects[n].location[a] : n \in annotation_objects}
    IN IF annotation_objects = {} THEN <<0, 0, 0>>
       ELSE << (MinOf(C(1)) + MaxOf(C(1))) \div 2,
               (MinOf(C(2)) + MaxOf(C(2))) \div 2,
               (MinOf(C(3)) + MaxOf(C(3))) \div 2 >>

CameraDefaults == [kind |-> "camera", type |-> "PERSP", angle_y |-> 27,
                   sensor_fit |-> "AUTO"]

\* create_camera: the camera is linked to parent_collection before its
\* field of view is set
create_camera(st, camera_data, parent_collection) ==
    IF label_en_raises(camera_data) THEN Raise(st, "AttributeError")
    ELSE
    Let(label_en(camera_data, JStr("Camera")), LAMBDA name :
    Let([NewObject(st.objects, "CAMERA", name, CameraDefaults)
           EXCEPT !.coll = parent_collection], LAMBDA cam :
    Let(Len(st.objects) + 1, LAMBDA n :
    Let([st EXCEPT !.objects = Append(@, cam)], LAMBDA s1 :
    Let(GetD(camera_data, "fieldOfView", JNum(53)), LAMBDA raw :
    Let(SingletonLog(s1, raw), LAMBDA s2 :
    Let(force_as_singleton(raw), LAMBDA foV :
    Let(IF ~IsNull(foV) /\ float_raises(foV)
        THEN Log(s2, "logger", "ERROR", "fieldOfView cannot be cast to number")
        ELSE s2, LAMBDA s3 :
    Let(IF ~IsNull(foV) /\ ~float_raises(foV) THEN JNum(float_of(foV)) ELSE foV, LAMBDA cast :
    Let(IF Truthy(cast) THEN cast ELSE JNum(53), LAMBDA chosen :
    IF ~IsStr(name) THEN Raise(st, "TypeError")
       ELSE IF Get(camera_data, "type") # JStr("PerspectiveCamera") THEN s1
       ELSE IF ~IsNum(chosen) THEN Raise(s3, "TypeError")
       ELSE [s3 EXCEPT !.objects[n].data.angle_y = chosen.n,
                       !.objects[n].data.sensor_fit = "VERTICAL"]))))))))))

\* point_camera_at_target
point_camera_at_target(st, n, target_location) ==
    Let(VecSub(target_location, st.objects[n].location), LAMBDA direction :
    Let(Call("SetRotationMode", <<st.objects[n], "QUATERNION">>), LAMBDA cam :
    [st EXCEPT !.objects[n] =
            [cam EXCEPT !.rotation_quaternion = TrackQuat(direction)]]))

\* set_camera_target
set_camera_target(st, n, look_at_data) ==
    IF ~IsDict(look_at_data) THEN Raise(st, "AttributeError")
    ELSE IF Get(look_at_data, "type") = JStr("PointSelector")
    THEN IF axes_named_values_raises(look_at_data) THEN Raise(st, "ValueError")
         ELSE point_camera_at_target(st, n,
                  iiif_position_to_blender_vector(axes_named_values(look_at_data)))
    ELSE IF Get(look_at_data, "type") = JStr("Annotation")
            /\ Truthy(Get(look_at_data, "id"))
         THEN point_camera_at_target(st, n,
                  get_annotation_bounds_center(st, Get(look_at_data, "id")))
         ELSE st

\* create_or_get_collection: the collection of that name when there is
\* one, wherever it is; a new child of parent otherwise
create_or_get_collection(st, name, parent) ==
    IF ~IsStr(name) THEN Raise(st, "TypeError")
    ELSE IF name.s \in CollectionNames(st.collections) THEN st
    ELSE [st EXCEPT !.collections =
              Append(@, [name |-> name.s, parent |-> parent, props |-> <<>>])]

get_iiif_id_or_label_raises(data) == ~IsDict(data) \/ label_en_raises(data)

get_iiif_id_or_label(data) ==
    label_en(data, GetD(data, "id", JStr("Unnamed ID")))

\* [t for t in transform_data if t["type"] in {type}] raises when an entry
\* is not a dict or has no type
transforms_raise(transform_data) ==
    \E n \in 1..Len(transform_data) :
        ~IsDict(transform_data[n]) \/ ~Has(transform_data[n], "type")

transforms_of_type(transform_data, type) ==
    SelectSeq(transform_data, LAMBDA t : Get(t, "type") = JStr(type))

\* the RotateTransform step of process_annotation_model
apply_model_rotation(st, n, transform_data) ==
    Let(JList(transforms_of_type(transform_data, "RotateTransform")), LAMBDA found :
    Let(SingletonLog(st, found), LAMBDA s1 :
    Let(force_as_singleton(found), LAMBDA rotation_data :
    IF ~Truthy(rotation_data) THEN s1
       ELSE IF axes_named_values_raises(rotation_data) THEN Raise(s1, "ValueError")
       ELSE Let(model_transform_angles_to_blender_euler(
                    axes_named_values(rotation_data)), LAMBDA blender_euler :
            Let(Call("SetRotationMode", <<s1.objects[n], blender_euler.order>>), LAMBDA obj :
            [s1 EXCEPT !.objects[n] =
                   [obj EXCEPT !.rotation_euler = blender_euler.v]])))))

\* the ScaleTransform step: only a uniform positive scale is applied
\* the scale step applying whatever factors the ScaleTransform names
apply_any_scale(st, n, transform_data) ==
    Let(JList(transforms_of_type(transform_data, "ScaleTransform")), LAMBDA found :
    Let(SingletonLog(st, found), LAMBDA s1 :
    Let(force_as_singleton(found), LAMBDA scale_data :
    IF ~Truthy(scale_data) THEN s1
       ELSE IF axes_named_values_raises(scale_data) THEN Raise(s1, "ValueError")
       ELSE Let(axes_named_values(scale_data), LAMBDA axes_scale :
            IF ~(axes_scale[1] = axes_scale[2] /\ axes_scale[2] = axes_scale[3])
               THEN [Log(s1, "logger", "WARNING", "non-uniform scale factors not supported")
                        EXCEPT !.objects[n].scale = axes_scale]
               ELSE IF axes_scale[1] <= 0
               THEN Log(s1, "logger", "WARNING", "non-positive scale not supported")
               ELSE [s1 EXCEPT !.objects[n].scale = axes_scale]))))

apply_model_scale(st, n, transform_data) ==
    Let(JList(transforms_of_type(transform_data, "ScaleTransform")), LAMBDA found :
    Let(SingletonLog(st, found), LAMBDA s1 :
    Let(force_as_singleton(found), LAMBDA scale_data :
    IF ~Truthy(scale_data) THEN s1
       ELSE IF axes_named_values_raises(scale_data) THEN Raise(s1, "ValueError")
       ELSE Let(axes_named_values(scale_data), LAMBDA axes_scale :
            IF ~(axes_scale[1] = axes_scale[2] /\ axes_scale[2] = axes_scale[3])
               THEN Log(s1, "logger", "WARNING", "non-uniform scale factors not supported")
               ELSE IF axes_scale[1] <= 0
               THEN Log(s1, "logger", "WARNING", "non-positive scale not supported")
               ELSE [s1 EXCEPT !.objects[n].scale = axes_scale]))))

\* the translation step applying the first TranslateTransform however many
\* the list holds
apply_first_translation(st, n, transform_data) ==
    Let(transforms_of_type(transform_data, "TranslateTransform"), LAMBDA translateTransforms :
    IF Len(translateTransforms) = 0 THEN st
       ELSE IF axes_named_values_raises(translateTransforms[1]) THEN Raise(st, "ValueError")
       ELSE [st EXCEPT !.objects[n].location =
                VecAdd(@, iiif_position_to_blender_vector(
                              axes_named_values(translateTransforms[1])))])

\* the TranslateTransform step: applied when there is exactly one
apply_model_translation(st, n, transform_data) ==
    Let(transforms_of_type(transform_data, "TranslateTransform"), LAMBDA translateTransforms :
    IF Len(translateTransforms) > 1
       THEN Log(st, "logger", "WARNING", "multiple TranslateTransform not supported")
       ELSE IF Len(translateTransforms) = 1
       THEN Let(translateTransforms[1], LAMBDA translate_data :
            Let(IF translate_data # transform_data[Len(transform_data)]
                THEN Log(st, "logger", "WARNING", "TranslateTransform must be last")
                ELSE st, LAMBDA s1 :
            IF axes_named_values_raises(translate_data) THEN Raise(s1, "ValueError")
               ELSE [s1 EXCEPT !.objects[n].location =
                        VecAdd(@, iiif_position_to_blender_vector(
                                      axes_named_values(translate_data)))]))
       ELSE st)

\* the target step shared by models and cameras: the blender vector of the
\* target's PointSelector, or "none"; bare marks a target without selector
target_selector_step(st, annotation_data, apply(_, _)) ==
    Let(Get(annotation_data, "target"), LAMBDA raw :
    Let(SingletonLog(st, raw), LAMBDA s1 :
    Let(force_as_singleton(raw), LAMBDA single :
    IF force_as_object_raises(single) THEN Raise(s1, "ValueError")
       ELSE
       Let(force_as_object(single, JStr("Scene")), LAMBDA target_data :
       IF ~Truthy(target_data) THEN s1
          ELSE IF ~Has(target_data, "type") THEN Raise(s1, "KeyError")
          ELSE IF Get(target_data, "type") # JStr("SpecificResource") THEN s1
          ELSE
          Let(Get(target_data, "selector"), LAMBDA rawsel :
          Let(SingletonLog(s1, rawsel), LAMBDA s2 :
          Let(force_as_singleton(rawsel), LAMBDA selector_data :
          IF ~Truthy(selector_data) THEN s2
             ELSE IF ~IsDict(selector_data) THEN Raise(s2, "TypeError")
             ELSE IF ~Has(selector_data, "type") THEN Raise(s2, "KeyError")
             ELSE IF Get(selector_data, "type") # JStr("PointSelector") THEN s2
             ELSE IF axes_named_values_raises(selector_data) THEN Raise(s2, "ValueError")
             ELSE apply(s2, iiif_position_to_blender_vector(
                                axes_named_values(selector_data))))))))))

\* the last loop of process_annotation_model: provenance and tags on the
\* imported object, which is moved to parent_collection
finish_model(st, n, annotation_data, model_id, parent_collection) ==
    Let(store_annotation(st, n, annotation_data), LAMBDA s1 :
    Let(SetObjectPropChecked(s1, n, "annotation_id", Get(annotation_data, "id")), LAMBDA s2 :
    Let(Bind(s2, LAMBDA s : SetObjectProp(s, n, "iiif_source_url", model_id)), LAMBDA s3 :
    Bind(s3, LAMBDA s : [s EXCEPT !.objects[n].coll = parent_collection]))))

process_annotation_model(st, env, source_data, specific_resource_data, annotation_data, parent_collection) ==
    Let(CollectionIndex(st.collections, parent_collection), LAMBDA pidx :
    Let(IF st.collections[pidx].parent = ROOT
        THEN [st EXCEPT !.active_collection = parent_collection]
        ELSE st, LAMBDA s0 :
    Let(Get(source_data, "id"), LAMBDA model_id :
    IF ~Truthy(model_id)
       THEN Log(Log(s0, "report", "ERROR", "Model ID not found"),
                "logger", "ERROR", "Model ID not found")
       ELSE
       Let(download_model(s0, env, model_id), LAMBDA s1 :
       Let(Bind(s1, LAMBDA s : import_model(s, env, model_id)), LAMBDA s2 :
       Let(Len(st.objects) + 1, LAMBDA n :
       Let(IF Truthy(specific_resource_data)
           THEN force_as_list(Get(specific_resource_data, "transform"))
           ELSE <<>>, LAMBDA transform_data :
       Let(IF transform_data = <<>> THEN s2
           ELSE Bind(s2, LAMBDA s :
                  IF transforms_raise(transform_data) THEN Raise(s, "KeyError")
                  ELSE Bind(Bind(apply_model_rotation(s, n, transform_data),
                                 LAMBDA r : apply_model_scale(r, n, transform_data)),
                            LAMBDA r : apply_model_translation(r, n, transform_data))), LAMBDA s3 :
       Let(Bind(s3, LAMBDA s : target_selector_step(s, annotation_data,
                  LAMBDA r, blender_vector :
                      [r EXCEPT !.objects[n].location = VecAdd(@, blender_vector)])), LAMBDA s4 :
       Bind(s4, LAMBDA s : finish_model(s, n, annotation_data, model_id,
                                           parent_collection)))))))))))

\* the orientation step preferring the wrapping transform to lookAt
orient_camera_by_transform(st, n, camera_data, specific_resource_data) ==
    Let(Get(camera_data, "lookAt"), LAMBDA rawlook :
    Let(SingletonLog(st, rawlook), LAMBDA s1 :
    Let(force_as_singleton(rawlook), LAMBDA look_at_data :
    Let(force_as_list(IF Truthy(specific_resource_data)
                      THEN Get(specific_resource_data, "transform")
                      ELSE specific_resource_data), LAMBDA transform_data :
    Let(IF IsNull(look_at_data) /\ transform_data = <<>>
        THEN Log(s1, "logger", "WARNING", "camera has no orientation specified")
        ELSE s1, LAMBDA s2 :
    Let(IF ~IsNull(look_at_data) /\ Len(transform_data) > 0
        THEN Log(s2, "logger", "WARNING", "ambiguous camera orientation; using lookAt")
        ELSE s2, LAMBDA s3 :
    IF transform_data # <<>>
       THEN IF ~IsDict(transform_data[1]) THEN Raise(s3, "AttributeError")
            ELSE IF ~(Len(transform_data) = 1
                      /\ Get(transform_data[1], "type") = JStr("RotateTransform"))
            THEN [Log(s3, "logger", "ERROR", "Unsupported transforms resource")
                     EXCEPT !.returned = TRUE]
            ELSE IF axes_named_values_raises(transform_data[1])
            THEN Raise(s3, "ValueError")
            ELSE Let(camera_transform_angles_to_blender_euler(
                         axes_named_values(transform_data[1])), LAMBDA blender_euler :
                 Let(Call("SetRotationMode", <<s3.objects[n], blender_euler.order>>), LAMBDA cam :
                 [s3 EXCEPT !.objects[n] =
                        [cam EXCEPT !.rotation_euler = blender_euler.v]]))
       ELSE IF Truthy(look_at_data) THEN set_camera_target(s3, n, look_at_data)
       ELSE s3))))))

\* the orientation step of process_annotation_camera
orient_camera(st, n, camera_data, specific_resource_data) ==
    Let(Get(camera_data, "lookAt"), LAMBDA rawlook :
    Let(SingletonLog(st, rawlook), LAMBDA s1 :
    Let(force_as_singleton(rawlook), LAMBDA look_at_data :
    Let(force_as_list(IF Truthy(specific_resource_data)
                      THEN Get(specific_resource_data, "transform")
                      ELSE specific_resource_data), LAMBDA transform_data :
    Let(IF IsNull(look_at_data) /\ transform_data = <<>>
        THEN Log(s1, "logger", "WARNING", "camera has no orientation specified")
        ELSE s1, LAMBDA s2 :
    Let(IF ~IsNull(look_at_data) /\ Len(transform_data) > 0
        THEN Log(s2, "logger", "WARNING", "ambiguous camera orientation; using lookAt")
        ELSE s2, LAMBDA s3 :
    IF Truthy(look_at_data) THEN set_camera_target(s3, n, look_at_data)
       ELSE IF transform_data # <<>>
       THEN IF ~IsDict(transform_data[1]) THEN Raise(s3, "AttributeError")
            ELSE IF ~(Len(transform_data) = 1
                      /\ Get(transform_data[1], "type") = JStr("RotateTransform"))
            THEN [Log(s3, "logger", "ERROR", "Unsupported transforms resource")
                     EXCEPT !.returned = TRUE]
            ELSE IF axes_named_values_raises(transform_data[1])
            THEN Raise(s3, "ValueError")
            ELSE Let(camera_transform_angles_to_blender_euler(
                         axes_named_values(transform_data[1])), LAMBDA blender_euler :
                 Let(Call("SetRotationMode", <<s3.objects[n], blender_euler.order>>), LAMBDA cam :
                 [s3 EXCEPT !.objects[n] =
                        [cam EXCEPT !.rotation_euler = blender_euler.v]]))
       ELSE s3))))))

\* process_annotation_camera without its positioning step
process_annotation_camera_unplaced(st, camera_data, specific_resource_data, annotation_data, parent_collection) ==
    Let(Len(st.objects) + 1, LAMBDA n :
    Let(create_camera(st, camera_data, parent_collection), LAMBDA s1 :
    Let(Bind(s1, LAMBDA s : store_annotation(s, n, annotation_data)), LAMBDA s3 :
    Let(Bind(s3, LAMBDA s : orient_camera(s, n, camera_data,
                                          specific_resource_data)), LAMBDA s4 :
    Let(IF s4.exc = "none" /\ ~s4.returned
        THEN Bind(SetObjectPropChecked(s4, n, "annotation_id",
                                       Get(annotation_data, "id")),
                  LAMBDA s : SetObjectPropChecked(s, n, "iiif_source_url",
                                                  Get(camera_data, "id")))
        ELSE s4, LAMBDA s5 :
    [s5 EXCEPT !.returned = FALSE])))))

process_annotation_camera(st, camera_data, specific_resource_data, annotation_data, parent_collection) ==
    Let(Len(st.objects) + 1, LAMBDA n :
    Let(create_camera(st, camera_data, parent_collection), LAMBDA s1 :
    Let(Bind(s1, LAMBDA s : store_annotation(s, n, annotation_data)), LAMBDA s2 :
    Let(Bind(s2, LAMBDA s : target_selector_step(s, annotation_data,
                  LAMBDA r, blender_vector :
                      [r EXCEPT !.objects[n].location = blender_vector])), LAMBDA s3 :
    Let(Bind(s3, LAMBDA s : orient_camera(s, n, camera_data,
                                          specific_resource_data)), LAMBDA s4 :
    Let(IF s4.exc = "none" /\ ~s4.returned
        THEN Bind(SetObjectPropChecked(s4, n, "annotation_id",
                                       Get(annotation_data, "id")),
                  LAMBDA s : SetObjectPropChecked(s, n, "iiif_source_url",
                                                  Get(camera_data, "id")))
        ELSE s4, LAMBDA s5 :
    [s5 EXCEPT !.returned = FALSE]))))))

\* get_blender_light_type
get_blender_light_type(iiif_light_type) ==
    IF iiif_light_type = JStr("DirectionalLight") THEN "SUN" ELSE "POINT"

LightDefaults == [kind |-> "light", type |-> "POINT", color |-> <<255, 255, 255>>,
                  energy |-> 10]

\* the lookAt, color and intensity steps of process_annotation_light
light_properties(st, n, body) ==
    Let(IF Has(body, "lookAt")
        THEN Let(Get(body, "lookAt"), LAMBDA look_at_data :
             Let(SetObjectProp(st, n, "original_lookAt",
                               json_dumps(look_at_data)), LAMBDA a :
             IF ~IsDict(look_at_data) THEN Raise(a, "AttributeError")
                ELSE IF Get(look_at_data, "type") = JStr("Annotation")
                THEN SetObjectProp(a, n, "lookAt_annotation_id",
                                   GetD(look_at_data, "id", JStr("")))
                ELSE a))
        ELSE st, LAMBDA s1 :
    Let(Bind(s1, LAMBDA s :
          IF Has(body, "color")
          THEN IF hex_to_rgba_raises(Get(body, "color"))
               THEN Raise(s, "ValueError")
               ELSE Let(hex_to_rgba(Get(body, "color")), LAMBDA rgba :
                    SetObjectProp(
                         [s EXCEPT !.objects[n].data.color =
                                      <<rgba[1], rgba[2], rgba[3]>>],
                         n, "original_color", Get(body, "color")))
          ELSE s), LAMBDA s2 :
    Bind(s2, LAMBDA s :
         IF Has(body, "intensity") /\ IsDict(Get(body, "intensity"))
         THEN Let(Get(body, "intensity"), LAMBDA intensity_data :
              Let(GetD(intensity_data, "value", JNum(1)), LAMBDA value :
              IF float_raises(value) THEN Raise(s, "TypeError")
                 ELSE SetObjectProp(
                        [s EXCEPT !.objects[n].data.energy = float_of(value)],
                        n, "original_intensity", json_dumps(intensity_data))))
         ELSE s)))

process_annotation_light(st, annotation_data, parent_collection) ==
    Let(GetD(annotation_data, "body", JObj(<<>>)), LAMBDA body :
    IF ~IsDict(body) \/ label_en_raises(body) THEN Raise(st, "AttributeError")
       ELSE
       Let(label_en(body, JStr("Light")), LAMBDA light_name :
       Let(Len(st.objects) + 1, LAMBDA n :
       Let([NewObject(st.objects, "LIGHT", light_name,
                      [LightDefaults EXCEPT !.type =
                          get_blender_light_type(Get(body, "type"))])
              EXCEPT !.coll = parent_collection], LAMBDA light :
       Let([st EXCEPT !.objects = Append(@, light)], LAMBDA s1 :
       Let(SetObjectPropChecked(s1, n, "original_annotation_id",
                                Get(annotation_data, "id")), LAMBDA s2 :
       Let(Bind(s2, LAMBDA s : SetObjectPropChecked(s, n, "original_body_id",
                                                    Get(body, "id"))), LAMBDA s3 :
       Let(Bind(s3, LAMBDA s :
             IF Has(annotation_data, "target")
             THEN SetObjectProp(s, n, "original_target",
                                json_dumps(Get(annotation_data, "target")))
             ELSE s), LAMBDA s4 :
       Let(Bind(s4, LAMBDA s : light_properties(s, n, body)), LAMBDA s5 :
       IF ~IsStr(light_name) THEN Raise(st, "TypeError")
          ELSE Bind(s5, LAMBDA s : store_annotation(s, n, annotation_data)))))))))))

\* process_annotation_specific_resource: a source that is neither a camera
\* nor a Model reaches the statement light_annotation["body"] = source,
\* where the name source is not defined
process_annotation_specific_resource(st, env, annotation_data, parent_collection) ==
    Let(Get(annotation_data, "body"), LAMBDA rawbody :
    Let(SingletonLog(st, rawbody), LAMBDA s1 :
    Let(force_as_singleton(rawbody), LAMBDA specific_resource_data :
    IF IsNull(specific_resource_data)
       THEN Log(s1, "logger", "ERROR", "specific_resource_data is None")
       ELSE IF ~IsDict(specific_resource_data) THEN Raise(s1, "AttributeError")
       ELSE
       Let(Get(specific_resource_data, "source"), LAMBDA rawsource :
       Let(SingletonLog(s1, rawsource), LAMBDA s2 :
       Let(force_as_singleton(rawsource), LAMBDA single :
       IF force_as_object_raises(single) THEN Raise(s2, "ValueError")
          ELSE
          Let(force_as_object(single, JStr("Mpdel")), LAMBDA source_data :
          IF IsNull(source_data)
             THEN Log(s2, "logger", "ERROR", "specific_resource_data source is None")
             ELSE IF ~Has(source_data, "type") THEN Raise(s2, "KeyError")
             ELSE IF Get(source_data, "type") \in
                        {JStr("PerspectiveCamera"), JStr("OrthographicCamera")}
             THEN Call("process_annotation_camera", <<s2, source_data, specific_resource_data,
                                            annotation_data, parent_collection>>)
             ELSE IF Get(source_data, "type") = JStr("Model")
             THEN Call("process_annotation_model", <<s2, env, source_data,
                                           specific_resource_data,
                                           annotation_data, parent_collection>>)
             ELSE Raise(s2, "NameError"))))))))

\* process_annotation with a body type it has no branch for treated as an
\* error
process_annotation_strict(st, env, annotation_data, parent_collection) ==
    Let(Get(annotation_data, "body"), LAMBDA rawbody :
    Let(SingletonLog(st, rawbody), LAMBDA s1 :
    Let(force_as_singleton(rawbody), LAMBDA single :
    IF force_as_object_raises(single) THEN Raise(s1, "ValueError")
       ELSE
       Let(force_as_object(single, JStr("Model")), LAMBDA forced :
       Let(Get(annotation_data, "bodyValue"), LAMBDA rawvalue :
       Let(IF IsNull(forced) THEN SingletonLog(s1, rawvalue) ELSE s1, LAMBDA s2 :
       Let(force_as_singleton(rawvalue), LAMBDA bodyValue :
       Let(IF IsNull(forced) /\ IsStr(bodyValue)
           THEN JObj([type |-> JStr("TextualBody"), value |-> bodyValue])
           ELSE forced, LAMBDA body :
       IF IsNull(body)
          THEN IF Has(annotation_data, "id")
               THEN Log(s2, "logger", "WARNING", "annotation has no body property")
               ELSE Raise(s2, "KeyError")
          ELSE IF ~Has(body, "type") THEN Raise(s2, "KeyError")
          ELSE IF Get(body, "type") = JStr("Model")
          THEN Call("process_annotation_model", <<s2, env, body, JNull, annotation_data,
                                        parent_collection>>)
          ELSE IF Get(body, "type") = JStr("PerspectiveCamera")
          THEN Call("process_annotation_camera", <<s2, body, JNull, annotation_data,
                                         parent_collection>>)
          ELSE IF Get(body, "type") \in {JStr("AmbientLight"), JStr("DirectionalLight")}
          THEN process_annotation_light(s2, annotation_data, parent_collection)
          ELSE IF Get(body, "type") = JStr("SpecificResource")
          THEN process_annotation_specific_resource(s2, env, annotation_data,
                                                    parent_collection)
          ELSE Raise(s2, "ValueError")))))))))

process_annotation(st, env, annotation_data, parent_collection) ==
    Let(Get(annotation_data, "body"), LAMBDA rawbody :
    Let(SingletonLog(st, rawbody), LAMBDA s1 :
    Let(force_as_singleton(rawbody), LAMBDA single :
    IF force_as_object_raises(single) THEN Raise(s1, "ValueError")
       ELSE
       Let(force_as_object(single, JStr("Model")), LAMBDA forced :
       Let(Get(annotation_data, "bodyValue"), LAMBDA rawvalue :
       Let(IF IsNull(forced) THEN SingletonLog(s1, rawvalue) ELSE s1, LAMBDA s2 :
       Let(force_as_singleton(rawvalue), LAMBDA bodyValue :
       Let(IF IsNull(forced) /\ IsStr(bodyValue)
           THEN JObj([type |-> JStr("TextualBody"), value |-> bodyValue])
           ELSE forced, LAMBDA body :
       IF IsNull(body)
          THEN IF Has(annotation_data, "id")
               THEN Log(s2, "logger", "WARNING", "annotation has no body property")
               ELSE Raise(s2, "KeyError")
          ELSE IF ~Has(body, "type") THEN Raise(s2, "KeyError")
          ELSE IF Get(body, "type") = JStr("Model")
          THEN Call("process_annotation_model", <<s2, env, body, JNull, annotation_data,
                                        parent_collection>>)
          ELSE IF Get(body, "type") = JStr("PerspectiveCamera")
          THEN Call("process_annotation_camera", <<s2, body, JNull, annotation_data,
                                         parent_collection>>)
          ELSE IF Get(body, "type") \in {JStr("AmbientLight"), JStr("DirectionalLight")}
          THEN process_annotation_light(s2, annotation_data, parent_collection)
          ELSE IF Get(body, "type") = JStr("SpecificResource")
          THEN process_annotation_specific_resource(s2, env, annotation_data,
                                                    parent_collection)
          ELSE Log(s2, "logger", "WARNING", "body type not supported for Blender")))))))))

\* the loop of process_annotation_page over items[i..]
RECURSIVE page_items(_, _, _, _, _)
page_items(st, env, items, i, page_collection) ==
    IF st.exc # "none" \/ i > Len(items) THEN st
    ELSE Let(items[i], LAMBDA item :
         Let(IF ~IsDict(item) THEN Raise(st, "AttributeError")
             ELSE IF Get(item, "type") = JStr("Annotation")
             THEN Call("process_annotation", <<st, env, item, page_collection>>)
             ELSE Log(st, "report", "WARNING", "Unknown item type"), LAMBDA s1 :
         page_items(s1, env, items, i + 1, page_collection)))

\* x.get("items", []) as the sequence a for loop runs over
items_raise(data) == Has(data, "items") /\ ~IsList(Get(data, "items"))

items_of(data) == GetD(data, "items", JList(<<>>)).l

process_annotation_page(st, env, annotation_page_data, scene_collection) ==
    IF get_iiif_id_or_label_raises(annotation_page_data)
    THEN Raise(st, "AttributeError")
    ELSE
    Let(get_iiif_id_or_label(annotation_page_data), LAMBDA name :
    Let(create_or_get_collection(st, name, scene_collection), LAMBDA s1 :
    Bind(s1, LAMBDA s :
         IF items_raise(annotation_page_data) THEN Raise(s, "AttributeError")
         ELSE page_items(s, env, items_of(annotation_page_data), 1, name.s))))

\* the loop of process_scene over items[i..]
RECURSIVE scene_items(_, _, _, _, _)
scene_items(st, env, items, i, scene_collection) ==
    IF st.exc # "none" \/ i > Len(items) THEN st
    ELSE Let(items[i], LAMBDA item :
         Let(IF ~IsDict(item) THEN Raise(st, "AttributeError")
             ELSE IF Get(item, "type") = JStr("AnnotationPage")
             THEN process_annotation_page(st, env, item, scene_collection)
             ELSE IF Get(item, "type") = JStr("Annotation")
             THEN Call("process_annotation", <<st, env, item, scene_collection>>)
             ELSE Log(st, "report", "WARNING", "Unknown item type"), LAMBDA s1 :
         scene_items(s1, env, items, i + 1, scene_collection)))

\* the backgroundColor step of process_scene: every exception is caught
\* and reported
set_background(st, scene_data) ==
    IF ~Has(scene_data, "backgroundColor") THEN st
    ELSE IF ~st.world.exists
    THEN Log(st, "report", "ERROR", "Error setting background color")
    ELSE Let([st EXCEPT !.world.use_nodes = TRUE], LAMBDA s1 :
         IF hex_to_rgba_raises(Get(scene_data, "backgroundColor"))
            THEN Log(s1, "report", "ERROR", "Error setting background color")
            ELSE [s1 EXCEPT !.world.background =
                                hex_to_rgba(Get(scene_data, "backgroundColor"))])

process_scene(st, env, scene_data, manifest_collection) ==
    IF get_iiif_id_or_label_raises(scene_data) THEN Raise(st, "AttributeError")
    ELSE
    Let(get_iiif_id_or_label(scene_data), LAMBDA name :
    Let(create_or_get_collection(st, name, manifest_collection), LAMBDA s1 :
    Let(Bind(s1, LAMBDA s : store_scene(s, name.s, scene_data)), LAMBDA s2 :
    Let(Bind(s2, LAMBDA s : set_background(s, scene_data)), LAMBDA s3 :
    Bind(s3, LAMBDA s :
         IF items_raise(scene_data) THEN Raise(s, "AttributeError")
         ELSE scene_items(s, env, items_of(scene_data), 1, name.s))))))

\* the first loop of process_manifest: the Scene items, a warning for every
\* other item
RECURSIVE collect_scenes(_, _, _)
collect_scenes(st, items, i) ==
    IF st.exc # "none" \/ i > Len(items) THEN st
    ELSE Let(items[i], LAMBDA item :
         Let(IF ~IsDict(item) THEN Raise(st, "AttributeError")
             ELSE IF Get(item, "type") = JStr("Scene") THEN st
             ELSE Log(st, "report", "WARNING", "Unknown item type"), LAMBDA s1 :
         collect_scenes(s1, items, i + 1)))

RECURSIVE process_scenes(_, _, _, _, _)
process_scenes(st, env, scenes, i, main_collection) ==
    IF st.exc # "none" \/ i > Len(scenes) THEN st
    ELSE process_scenes(process_scene(st, env, scenes[i], main_collection),
                        env, scenes, i + 1, main_collection)

\* the setattr calls that end process_manifest; a StringProperty takes
\* only a str
set_manifest_props(st, manifest_data) ==
    Let(GetD(manifest_data, "id", JStr("")), LAMBDA id :
    Let(label_en_raises(manifest_data), LAMBDA lraise :
    Let(label_en_raises(JObj([label |-> GetD(manifest_data, "summary",
                                              JObj(<<>>))])), LAMBDA sraise :
    Let(label_en(manifest_data, JStr("")), LAMBDA label :
    Let(label_en(JObj([label |-> GetD(manifest_data, "summary",
                                      JObj(<<>>))]), JStr("")), LAMBDA summary :
    IF ~IsStr(id) THEN Raise(st, "TypeError")
       ELSE Let([st EXCEPT !.scene_props.iiif_manifest_id = id], LAMBDA s1 :
            IF lraise THEN Raise(s1, "AttributeError")
               ELSE IF ~IsStr(label) THEN Raise(s1, "TypeError")
               ELSE Let([s1 EXCEPT !.scene_props.iiif_manifest_label = label], LAMBDA s2 :
                    IF sraise THEN Raise(s2, "AttributeError")
                       ELSE IF ~IsStr(summary) THEN Raise(s2, "TypeError")
                       ELSE [s2 EXCEPT !.scene_props.iiif_manifest_summary = summary])))))))

MANIFEST_COLLECTION == "IIIF Manifest"

process_manifest(st, env, manifest_data) ==
    Let(create_or_get_collection(st, JStr(MANIFEST_COLLECTION), ROOT), LAMBDA s1 :
    Let(store_manifest(s1, MANIFEST_COLLECTION, manifest_data), LAMBDA s2 :
    Let(Bind(s2, LAMBDA s :
          IF items_raise(manifest_data) THEN Raise(s, "AttributeError")
          ELSE collect_scenes(s, items_of(manifest_data), 1)), LAMBDA s3 :
    Bind(s3, LAMBDA s :
         Let(SelectSeq(items_of(manifest_data),
                       LAMBDA item : Get(item, "type") = JStr("Scene")), LAMBDA scenes :
         IF Len(scenes) = 0
            THEN Log(s, "report", "ERROR", "No scenes found in manifest")
            ELSE Bind(process_scenes(s, env, scenes, 1, MANIFEST_COLLECTION),
                      LAMBDA r : set_manifest_props(r, manifest_data)))))))

\* ImportIIIF3DManifest.execute: file is the content of the file at
\* filepath, Unreadable when it cannot be read or parsed
Unreadable == [k |-> "unreadable"]

import_execute(st, env, file) ==
    Let(IF file = Unreadable THEN Raise(st, "JSONDecodeError")
        ELSE process_manifest(st, env, file), LAMBDA s1 :
    IF s1.exc = "none" THEN [s1 EXCEPT !.result = "FINISHED"]
       ELSE [Log(s1, "report", "ERROR", "Error reading manifest")
               EXCEPT !.result = "CANCELLED", !.exc = "none"])

-----------------------------------------------------------------------------
(* src/modules/exporter.py.  An operator that builds JSON returns the pair  *)
(* [st, v] of the state it leaves and the value it returns.                 *)

Ret(st, v) == [st |-> st, v |-> v]

\* str.lower(), for the comparisons with "scene" and "annotationpage"
Lower(str) ==
    CASE str = "Scene" -> "scene"
      [] str = "AnnotationPage" -> "annotationpage"
      [] OTHER -> str

\* x.get("type").lower() raises AttributeError unless the tag is a str
lower_raises(tag) == ~IsStr(tag)

\* bpy.data.collections iterates in the order of the names
NameOrder == << "a1", "Collection", "idonly", "IIIF Manifest", "man", "p1", "p2",
                "plain", "s1", "s2", "s3", "Unnamed ID" >>

NameRank(name) == CHOOSE n \in 1..Len(NameOrder) : NameOrder[n] = name

RECURSIVE SortedNames(_)
SortedNames(names) ==
    IF names = {} THEN <<>>
    ELSE Let(CHOOSE x \in names :
                 \A y \in names : NameRank(x) <= NameRank(y), LAMBDA first :
         <<first>> \o SortedNames(names \ {first}))

DataCollections(st) == SortedNames(CollectionNames(st.collections))

CollectionProps(st, name) ==
    st.collections[CollectionIndex(st.collections, name)].props

PropGet(props, key) == IF key \in DOMAIN props THEN props[key] ELSE JNull

NumTriple(t) == << JNum(t[1]), JNum(t[2]), JNum(t[3]) >>

\* get_manifest_data: the stored manifest of the first collection that has
\* one, merged over the fallback manifest, with id, label.en and summary.en
\* taken from the scene properties and an empty items list
fallback_manifest(st) ==
    JObj(("@context" :> JStr("http://iiif.io/api/presentation/4/context.json"))
         @@
         [ id |-> st.scene_props.iiif_manifest_id,
           type |-> JStr("Manifest"),
           label |-> JObj([en |-> JList(<<st.scene_props.iiif_manifest_label>>)]),
           summary |-> JObj([en |-> JList(<<st.scene_props.iiif_manifest_summary>>)]),
           items |-> JList(<<>>) ])

get_manifest_data(st) ==
    Let(DataCollections(st), LAMBDA names :
    Let(SelectSeq(names, LAMBDA c : Truthy(get_manifest(CollectionProps(st, c)))), LAMBDA with :
    IF with = <<>> THEN Ret(st, fallback_manifest(st))
       ELSE
       Let(get_manifest(CollectionProps(st, with[1])), LAMBDA manifest_data :
       IF ~IsDict(manifest_data) THEN Ret(Raise(st, "TypeError"), JNull)
          ELSE
          Let(JObj(manifest_data.f @@ fallback_manifest(st).f), LAMBDA merged :
          Let(Put(Put(merged, "items", JList(<<>>)),
                  "id", st.scene_props.iiif_manifest_id), LAMBDA m1 :
          IF ~IsDict(Get(m1, "label")) \/ ~IsDict(Get(m1, "summary"))
             THEN Ret(Raise(st, "TypeError"), JNull)
             ELSE Ret(st,
                    Put(Put(m1, "label",
                            Put(Get(m1, "label"), "en",
                                JList(<<st.scene_props.iiif_manifest_label>>))),
                        "summary",
                        Put(Get(m1, "summary"), "en",
                            JList(<<st.scene_props.iiif_manifest_summary>>)))))))))

\* get_light_annotation: a light with an original_color reaches the call
\* of rgba_to_hex, a name exporter.py does not import
get_light_annotation(st, n) ==
    Let(st.objects[n], LAMBDA obj :
    Let(IF "original_annotation_id" \in DOMAIN obj.props
        THEN obj.props["original_annotation_id"]
        ELSE Fmt("https://example.org/iiif/3d/light_", obj.name), LAMBDA annotation_id :
    Let(IF "original_body_id" \in DOMAIN obj.props
        THEN obj.props["original_body_id"]
        ELSE Fmt("https://example.org/iiif/3d/lights/", obj.name), LAMBDA body_id :
    Let(IF obj.data.type = "SUN" THEN "DirectionalLight"
        ELSE "AmbientLight", LAMBDA light_type :
    Let(JObj([id |-> body_id, type |-> JStr(light_type),
              label |-> JObj([en |-> JList(<<obj.name>>)])]), LAMBDA body0 :
    Let(IF Truthy(PropGet(obj.props, "original_intensity"))
        THEN Put(body0, "intensity",
                 json_loads(obj.props["original_intensity"]))
        ELSE body0, LAMBDA body1 :
    Let(IF Truthy(PropGet(obj.props, "original_lookAt"))
        THEN Put(body1, "lookAt", json_loads(obj.props["original_lookAt"]))
        ELSE body1, LAMBDA body2 :
    Let(JObj([id |-> annotation_id, type |-> JStr("Annotation"),
              motivation |-> JList(<<JStr("painting")>>),
              body |-> body2]), LAMBDA annotation :
    IF Truthy(PropGet(obj.props, "original_color"))
       THEN Ret(Raise(st, "NameError"), JNull)
       ELSE IF Truthy(PropGet(obj.props, "original_target"))
       THEN Ret(st, Put(annotation, "target",
                        json_loads(obj.props["original_target"])))
       ELSE Ret(st, annotation)))))))))

\* new_camera_annotation
new_camera_annotation(blender_camera) ==
    JObj([ id |-> Fmt("https://example.org/iiif/3d/anno_", blender_camera.name),
           type |-> JStr("Annotation"),
           motivation |-> JList(<<JStr("painting")>>),
           target |-> JObj([id |-> JStr("https://example.org/iiif/scene1/page/p1/1"),
                            type |-> JStr("Scene")]),
           body |-> JObj([id |-> Fmt("https://example.org/iiif/3d/camera_",
                                     blender_camera.name),
                          type |-> JStr("PerspectiveCamera")]) ])

\* the read of the rotation in the try block of get_camera_annotation and
\* get_model_annotation: the mode is set to QUATERNION and back, which
\* recomputes the quaternion from the Euler angles and the Euler angles
\* from the quaternion
read_quaternion(obj) ==
    Let(obj.rotation_mode, LAMBDA saved_mode :
    Let(Call("SetRotationMode", <<obj, "QUATERNION">>), LAMBDA q :
    Call("SetRotationMode", <<q, saved_mode>>)))

\* the scene id written into the source of a target
scene_id_of(st, scene_collection) ==
    Let(CollectionProps(st, scene_collection), LAMBDA props :
    IF "iiif_id" \in DOMAIN props THEN props["iiif_id"]
       ELSE JStr("https://example.com/not_available"))

\* target_source of get_camera_annotation and get_model_annotation
target_source_raises(annotation_data) ==
    Let(force_as_singleton(Get(annotation_data, "target")), LAMBDA single :
    force_as_object_raises(single)
       \/ ~IsDict(get_source_resource(force_as_object(single, JNull))))

target_source_of(st, annotation_data, scene_collection) ==
    Put(get_source_resource(
            force_as_object(force_as_singleton(Get(annotation_data, "target")),
                            JNull)),
        "id", scene_id_of(st, scene_collection))

\* the angles get_camera_annotation emits: for the quaternion of a lookAt
\* camera they are the raw components, kept symbolic
camera_rotation_values(quat) ==
    IF IsTrackQuat(quat)
    THEN << [k |-> "float", of |-> "degrees(quat.x) - 90", quat |-> quat],
            [k |-> "float", of |-> "degrees(quat.y)", quat |-> quat],
            [k |-> "float", of |-> "degrees(quat.z)", quat |-> quat] >>
    ELSE NumTriple(blender_rotation_to_camera_transform_angles(quat))

get_camera_annotation(st, n, scene_collection) ==
    Let(get_annotation(st.objects[n].props), LAMBDA stored :
    Let(IF IsNull(stored)
        THEN new_camera_annotation(st.objects[n])
        ELSE stored, LAMBDA annotation_data :
    Let(read_quaternion(st.objects[n]), LAMBDA cam :
    Let([st EXCEPT !.objects[n] = cam], LAMBDA s1 :
    Let(camera_rotation_values(cam.rotation_quaternion), LAMBDA iiif_rotation :
    Let(blender_vector_to_iiif_position(cam.location), LAMBDA iiif_position :
    Let(SingletonLog(s1, Get(annotation_data, "target")), LAMBDA s2 :
    IF target_source_raises(annotation_data)
       THEN Ret(Raise(s2, "TypeError"), JNull)
       ELSE
       Let(target_source_of(s2, annotation_data, scene_collection), LAMBDA target_source :
       Let(SingletonLog(s2, Get(annotation_data, "body")), LAMBDA s3 :
       Let(force_as_singleton(Get(annotation_data, "body")), LAMBDA body :
       Let(get_source_resource(body), LAMBDA source :
       IF ~IsDict(source) THEN Ret(Raise(s3, "AttributeError"), JNull)
          ELSE
          Let(Put(Pop(source, "lookAt"), "fieldOfView",
                  JNum(cam.data.angle_y)), LAMBDA iiif_camera :
          Ret(s3,
                 Put(Put(annotation_data, "body",
                         JObj([type |-> JStr("SpecificResource"),
                               source |-> iiif_camera,
                               transform |-> JList(<<create_axes_named_values(
                                                "RotateTransform", iiif_rotation)>>)])),
                     "target",
                     JObj([type |-> JStr("SpecificResource"),
                           source |-> target_source,
                           selector |-> create_axes_named_values(
                                            "PointSelector",
                                            NumTriple(iiif_position))])))))))))))))))

\* get_model_annotation with the selector and the wrapper emitted for every
\* node, as get_camera_annotation does
get_model_annotation_wrapped(st, n, scene_collection) ==
    Let(get_annotation(st.objects[n].props), LAMBDA annotation_data :
    IF IsNull(annotation_data) THEN Ret(Raise(st, "NameError"), JNull)
       ELSE
       Let(read_quaternion(st.objects[n]), LAMBDA model :
       Let([st EXCEPT !.objects[n] = model], LAMBDA s1 :
       Let(model.scale, LAMBDA scale_vector :
       Let(blender_rotation_to_model_transform_angles(
               model.rotation_quaternion), LAMBDA iiif_rotation :
       Let(blender_vector_to_iiif_position(model.location), LAMBDA iiif_position :
       Let(SingletonLog(s1, Get(annotation_data, "target")), LAMBDA s2 :
       IF target_source_raises(annotation_data)
          THEN Ret(Raise(s2, "TypeError"), JNull)
          ELSE
          Let(target_source_of(s2, annotation_data, scene_collection), LAMBDA target_source :
          Let(IF FALSE THEN target_source
              ELSE JObj([type |-> JStr("SpecificResource"),
                         source |-> target_source,
                         selector |-> create_axes_named_values(
                                          "PointSelector",
                                          NumTriple(iiif_position))]), LAMBDA new_target :
          Let(SingletonLog(s2, Get(annotation_data, "body")), LAMBDA s3 :
          Let(get_source_resource(
                  force_as_singleton(Get(annotation_data, "body"))), LAMBDA iiif_model :
          Let(IF scale_vector # <<1, 1, 1>>
              THEN <<create_axes_named_values("ScaleTransform",
                                              NumTriple(scale_vector))>>
              ELSE <<>>, LAMBDA scale_part :
          Let(IF iiif_rotation # <<0, 0, 0>>
              THEN <<create_axes_named_values("RotateTransform",
                                              NumTriple(iiif_rotation))>>
              ELSE <<>>, LAMBDA rotate_part :
          Let(scale_part \o rotate_part, LAMBDA iiif_transforms :
          Let(IF FALSE THEN iiif_model
              ELSE JObj([type |-> JStr("SpecificResource"),
                         source |-> iiif_model,
                         transform |-> JList(iiif_transforms)]), LAMBDA new_body :
          Ret(s3, Put(Put(annotation_data, "target", new_target),
                         "body", new_body)))))))))))))))))

\* get_model_annotation (the second definition of that name, which takes
\* the scene collection): a mesh without stored annotation reaches
\* new_model_annotation, which returns the undefined name camera_data
get_model_annotation(st, n, scene_collection) ==
    Let(get_annotation(st.objects[n].props), LAMBDA annotation_data :
    IF IsNull(annotation_data) THEN Ret(Raise(st, "NameError"), JNull)
       ELSE
       Let(read_quaternion(st.objects[n]), LAMBDA model :
       Let([st EXCEPT !.objects[n] = model], LAMBDA s1 :
       Let(model.scale, LAMBDA scale_vector :
       Let(blender_rotation_to_model_transform_angles(
               model.rotation_quaternion), LAMBDA iiif_rotation :
       Let(blender_vector_to_iiif_position(model.location), LAMBDA iiif_position :
       Let(SingletonLog(s1, Get(annotation_data, "target")), LAMBDA s2 :
       IF target_source_raises(annotation_data)
          THEN Ret(Raise(s2, "TypeError"), JNull)
          ELSE
          Let(target_source_of(s2, annotation_data, scene_collection), LAMBDA target_source :
          Let(IF iiif_position = <<0, 0, 0>> THEN target_source
              ELSE JObj([type |-> JStr("SpecificResource"),
                         source |-> target_source,
                         selector |-> create_axes_named_values(
                                          "PointSelector",
                                          NumTriple(iiif_position))]), LAMBDA new_target :
          Let(SingletonLog(s2, Get(annotation_data, "body")), LAMBDA s3 :
          Let(get_source_resource(
                  force_as_singleton(Get(annotation_data, "body"))), LAMBDA iiif_model :
          Let(IF scale_vector # <<1, 1, 1>>
              THEN <<create_axes_named_values("ScaleTransform",
                                              NumTriple(scale_vector))>>
              ELSE <<>>, LAMBDA scale_part :
          Let(IF iiif_rotation # <<0, 0, 0>>
              THEN <<create_axes_named_values("RotateTransform",
                                              NumTriple(iiif_rotation))>>
              ELSE <<>>, LAMBDA rotate_part :
          Let(scale_part \o rotate_part, LAMBDA iiif_transforms :
          Let(IF Len(iiif_transforms) = 0 THEN iiif_model
              ELSE JObj([type |-> JStr("SpecificResource"),
                         source |-> iiif_model,
                         transform |-> JList(iiif_transforms)]), LAMBDA new_body :
          Ret(s3, Put(Put(annotation_data, "target", new_target),
                         "body", new_body)))))))))))))))))

\* the objects of a collection and its child collections, in link order
ObjectsOf(st, col) ==
    SelectSeq([n \in 1..Len(st.objects) |-> n],
              LAMBDA n : st.objects[n].coll = col)

ChildrenOf(st, col) ==
    Let(SelectSeq([n \in 1..Len(st.collections) |-> n],
                  LAMBDA n : st.collections[n].parent = col), LAMBDA idx :
    [i \in 1..Len(idx) |-> st.collections[idx[i]].name])

\* process_collection of get_annotation_page: acc is the pair of the state
\* and the items of the page built so far
RECURSIVE export_objects(_, _, _, _)
RECURSIVE export_children(_, _, _, _)

export_collection(acc, col, scene_collection) ==
    Let(export_objects(acc, ObjectsOf(acc.st, col), 1, scene_collection), LAMBDA r :
    export_children(r, ChildrenOf(r.st, col), 1, scene_collection))

export_objects(acc, objs, i, scene_collection) ==
    IF acc.st.exc # "none" \/ i > Len(objs) THEN acc
    ELSE Let(objs[i], LAMBDA n :
         Let(acc.st.objects[n].type, LAMBDA type :
         Let(CASE type = "MESH" ->
                    get_model_annotation(acc.st, n, scene_collection)
               [] type = "LIGHT" -> get_light_annotation(acc.st, n)
               [] type = "CAMERA" ->
                    get_camera_annotation(acc.st, n, scene_collection)
               [] OTHER -> Ret(acc.st, JNull), LAMBDA r :
         Let(IF r.st.exc # "none" \/ ~Truthy(r.v) THEN Ret(r.st, acc.v)
             ELSE Ret(r.st, Append(acc.v, r.v)), LAMBDA next :
         export_objects(next, objs, i + 1, scene_collection)))))

export_children(acc, children, i, scene_collection) ==
    IF acc.st.exc # "none" \/ i > Len(children) THEN acc
    ELSE export_children(export_collection(acc, children[i], scene_collection),
                         children, i + 1, scene_collection)

\* item.get("type") of every item of x.get("items", []) raises when an
\* item is not a dict
item_types_raise(data) ==
    items_raise(data) \/ \E i \in 1..Len(items_of(data)) : ~IsDict(items_of(data)[i])

get_annotation_page(st, scene_data, scene_collection) ==
    IF item_types_raise(scene_data) THEN Ret(Raise(st, "AttributeError"), JNull)
    ELSE
    Let(SelectSeq(items_of(scene_data),
            LAMBDA item : Get(item, "type") = JStr("AnnotationPage")), LAMBDA existing_pages :
    IF existing_pages = <<>> /\ ~Has(scene_data, "id")
       THEN Ret(Raise(st, "KeyError"), JNull)
       ELSE
       Let(IF existing_pages # <<>> THEN Get(existing_pages[1], "id")
           ELSE Fmt("/annotations", Get(scene_data, "id")), LAMBDA page_id :
       Let(export_collection(Ret(st, <<>>), scene_collection, scene_collection), LAMBDA r :
       Ret(r.st, JObj([id |-> page_id, type |-> JStr("AnnotationPage"),
                          items |-> JList(r.v)])))))

\* the items of a scene with the first AnnotationPage replaced by page, or
\* with page appended; item.get("type").lower() raises on an item before it
\* that has no str type
RECURSIVE first_page(_, _)
first_page(items, i) ==
    IF i > Len(items) THEN [found |-> FALSE, raises |-> FALSE, at |-> 0]
    ELSE IF lower_raises(Get(items[i], "type"))
    THEN [found |-> FALSE, raises |-> TRUE, at |-> i]
    ELSE IF Lower(Get(items[i], "type").s) = "annotationpage"
    THEN [found |-> TRUE, raises |-> FALSE, at |-> i]
    ELSE first_page(items, i + 1)

get_scene_data(st, collection) ==
    Let(CollectionProps(st, collection), LAMBDA props :
    Let(IF ~Truthy(PropGet(props, "iiif_id"))
        THEN Log(st, "logger", "WARNING", "invalid id for exporting scene")
        ELSE st, LAMBDA s1 :
    Let(get_scene(props), LAMBDA scene_data :
    IF ~Truthy(scene_data) THEN Ret(s1, JNull)
       ELSE IF Has(scene_data, "backgroundColor") /\ s1.world.exists
               /\ s1.world.use_nodes
       THEN Ret(Raise(s1, "NameError"), JNull)
       ELSE
       Let(get_annotation_page(s1, scene_data, collection), LAMBDA page :
       IF page.st.exc # "none" THEN page
          ELSE
          Let(items_of(scene_data), LAMBDA items :
          Let(first_page(items, 1), LAMBDA fp :
          IF fp.raises THEN Ret(Raise(page.st, "AttributeError"), JNull)
             ELSE IF fp.found
             THEN Ret(page.st, Put(scene_data, "items",
                                   JList([items EXCEPT ![fp.at] = page.v])))
             ELSE Ret(page.st, Put(scene_data, "items",
                                   JList(Append(items, page.v))))))))))

\* the loop of ExportIIIF3DManifest.execute over bpy.data.collections:
\* collection.get("iiif_type", None).lower() raises AttributeError on a
\* collection that has no iiif_type
RECURSIVE export_scenes(_, _, _)
export_scenes(acc, names, i) ==
    IF acc.st.exc # "none" \/ i > Len(names) THEN acc
    ELSE Let(PropGet(CollectionProps(acc.st, names[i]), "iiif_type"), LAMBDA iiif_type :
         IF lower_raises(iiif_type)
            THEN Ret(Raise(acc.st, "AttributeError"), acc.v)
            ELSE IF Lower(iiif_type.s) # "scene"
            THEN export_scenes(acc, names, i + 1)
            ELSE Let(get_scene_data(acc.st, names[i]), LAMBDA r :
                 Let(IF r.st.exc # "none" \/ ~Truthy(r.v)
                     THEN Ret(r.st, acc.v)
                     ELSE Ret(r.st, Append(acc.v, r.v)), LAMBDA next :
                 export_scenes(next, names, i + 1))))

\* ExportIIIF3DManifest.execute: v is the manifest written to the file;
\* an exception leaves the operator before the file is opened
export_execute(st) ==
    Let(get_manifest_data(st), LAMBDA m :
    IF m.st.exc # "none" THEN Ret([m.st EXCEPT !.result = "EXCEPTION"], JNull)
       ELSE Let(export_scenes(Ret(m.st, <<>>), DataCollections(m.st), 1), LAMBDA r :
            IF r.st.exc # "none"
               THEN Ret([r.st EXCEPT !.result = "EXCEPTION"], JNull)
               ELSE Ret([r.st EXCEPT !.result = "FINISHED"],
                        Put(m.v, "items", JList(r.v)))))

-----------------------------------------------------------------------------
(* The operators called by name. *)

Call(method, args) ==
    CASE method = "SetRotationMode" -> SetRotationMode(args[1], args[2])
      [] method = "coerce_to_euler" -> coerce_to_euler(args[1], args[2])
      [] method = "QuatToEuler" -> QuatToEuler(args[1], args[2])
      [] method = "EulerToQuat" -> EulerToQuat(args[1], args[2])
      [] method = "import_execute" -> import_execute(args[1], args[2], args[3])
      [] method = "export_execute" -> export_execute(args[1])
      [] method = "process_annotation" ->
             process_annotation(args[1], args[2], args[3], args[4])
      [] method = "process_annotation_model" ->
             process_annotation_model(args[1], args[2], args[3], args[4],
                                      args[5], args[6])
      [] method = "process_annotation_camera" ->
             process_annotation_camera(args[1], args[2], args[3], args[4], args[5])

-----------------------------------------------------------------------------
(* The manifests and environments the operators are run on.                 *)

MaxImports == 1     \* import calls in one session
MaxItems == 2       \* annotations of a generated AnnotationPage

SceneRef(id) == JObj([id |-> JStr(id), type |-> JStr("Scene")])

Xyz(type, t) ==
    JObj([type |-> JStr(type), x |-> JNum(t[1]), y |-> JNum(t[2]), z |-> JNum(t[3])])

PointTarget(id, t) ==
    JObj([type |-> JStr("SpecificResource"), source |-> SceneRef(id),
          selector |-> Xyz("PointSelector", t)])

ModelBody(url) == JObj([id |-> JStr(url), type |-> JStr("Model")])

Specific(source, transforms) ==
    JObj([type |-> JStr("SpecificResource"), source |-> source,
          transform |-> JList(transforms)])

CameraBody == JObj([id |-> JStr("cam"), type |-> JStr("PerspectiveCamera")])

\* body and target of the annotations a page is generated from
AnnotationPool ==
    { [body |-> ModelBody("m.glb"), target |-> SceneRef("s1")],
      [body |-> ModelBody("n.glb"), target |-> PointTarget("s1", <<1, 2, 3>>)],
      [body |-> Specific(ModelBody("m.glb"),
                         << Xyz("ScaleTransform", <<2, 2, 2>>),
                            Xyz("RotateTransform", <<90, 0, 0>>) >>),
       target |-> SceneRef("s1")],
      [body |-> ModelBody("t.obj"), target |-> SceneRef("s1")],
      [body |-> Specific(CameraBody, << Xyz("RotateTransform", <<0, 90, 0>>) >>),
       target |-> PointTarget("s1", <<0, 1, 0>>)],
      [body |-> Put(CameraBody, "lookAt",
                    JObj([type |-> JStr("Annotation"), id |-> JStr("a1")])),
       target |-> SceneRef("s1")],
      [body |-> JObj([id |-> JStr("light"), type |-> JStr("AmbientLight"),
                      color |-> JStr("#ff0000")]),
       target |-> SceneRef("s1")],
      [body |-> JObj([id |-> JStr("snd"), type |-> JStr("Sound")]),
       target |-> SceneRef("s1")],
      [body |-> JNum(5), target |-> SceneRef("s1")],
      [body |-> JObj([id |-> JStr("untyped")]), target |-> SceneRef("s1")],
      [body |-> ModelBody("m.glb"), target |-> JBool(TRUE)] }

AnnotationIds == << "a1", "a2", "a3", "a4" >>

Anno(id, a) ==
    JObj([id |-> JStr(id), type |-> JStr("Annotation"),
          motivation |-> JList(<<JStr("painting")>>),
          body |-> a.body, target |-> a.target])

\* the annotation lists of at most MaxItems pool entries, with ids a1, a2, ..
AnnoSeqs ==
    UNION { { [i \in 1..n |-> Anno(AnnotationIds[i], q[i])] :
                q \in [1..n -> AnnotationPool] } : n \in 0..MaxItems }

Page(id, annos) ==
    JObj([id |-> JStr(id), type |-> JStr("AnnotationPage"), items |-> JList(annos)])

Scene(id, items) ==
    JObj([id |-> JStr(id), type |-> JStr("Scene"), items |-> JList(items)])

Manifest(items) ==
    JObj(("@context" :> JStr("http://iiif.io/api/presentation/4/context.json"))
         @@ [id |-> JStr("man"), type |-> JStr("Manifest"),
             label |-> JObj([en |-> JList(<<JStr("L")>>)]),
             summary |-> JObj([en |-> JList(<<JStr("S")>>)]),
             items |-> JList(items)])

Canvas == JObj([id |-> JStr("c1"), type |-> JStr("Canvas")])

OneModel == << Anno("a1", [body |-> ModelBody("m.glb"), target |-> SceneRef("s2")]) >>

\* manifests without a Scene
NoSceneFiles ==
    { Manifest(<<>>), Manifest(<<Canvas>>), Pop(Manifest(<<>>), "items") }

\* one scene with one generated page
PageFiles == { Manifest(<< Scene("s1", << Page("p1", annos) >>) >>) : annos \in AnnoSeqs }

\* annotations directly in the scene, an item without type in a page, a
\* scene with a background colour, two scenes, a manifest without label
ShapeFiles ==
    { Manifest(<< Scene("s1", annos) >>) : annos \in {a \in AnnoSeqs : Len(a) = 1} }
    \cup
    { Manifest(<< Scene("s1", << Page("p1", annos) >>), Canvas,
                  Put(Scene("s2", << Page("p2", OneModel) >>),
                      "backgroundColor", JStr("#0000ff")) >>) :
        annos \in {a \in AnnoSeqs : Len(a) = 1} }
    \cup
    { Manifest(<< Scene("s1", << Page("p1", << JObj([id |-> JStr("x")]) >> \o annos) >>) >>) :
        annos \in {a \in AnnoSeqs : Len(a) = 1} }
    \cup
    { Pop(Pop(Manifest(<< Scene("s1", << Page("p1", OneModel) >>) >>), "label"),
          "summary") }

\* manifests with a field the importer does not read (rights), without a
\* summary, and with a light that has no colour
SunLight ==
    << Put(Anno("a1", [body |-> JObj([id |-> JStr("sun"),
                                      type |-> JStr("DirectionalLight")]),
                       target |-> SceneRef("s1")]),
           "rights", JStr("cc0")) >>

ProvenanceFiles ==
    { Put(Manifest(<< Scene("s1", OneModel) >>), "rights", JStr("cc0")),
      Pop(Manifest(<< Scene("s1", OneModel) >>), "summary"),
      Manifest(<< Scene("s1", SunLight) >>) }

\* models with TranslateTransforms: one, one with a PointSelector target,
\* one that is not the last transform, and two
TranslateBodies ==
    { << Xyz("TranslateTransform", <<1, 0, 2>>) >>,
      << Xyz("TranslateTransform", <<1, 0, 2>>), Xyz("ScaleTransform", <<2, 2, 2>>) >>,
      << Xyz("TranslateTransform", <<1, 0, 2>>),
         Xyz("TranslateTransform", <<0, 1, 0>>) >> }

TranslateFiles ==
    { Manifest(<< Scene("s1", << Anno("a1", [body |-> Specific(ModelBody("m.glb"), t),
                                             target |-> target]) >>) >>) :
        t \in TranslateBodies, target \in {SceneRef("s1"), PointTarget("s1", <<1, 2, 3>>)} }

\* cameras: a PointSelector with missing axes, lookAt together with a
\* transform, neither, lookAt alone, a transform that is no rotation, a
\* rotation at a bare Scene target, an empty transform list
CameraCases ==
    { [body |-> Specific(CameraBody, << Xyz("RotateTransform", <<0, 90, 0>>) >>),
       target |-> JObj([type |-> JStr("SpecificResource"), source |-> SceneRef("s1"),
                        selector |-> JObj([type |-> JStr("PointSelector"),
                                           y |-> JNum(2)])])],
      [body |-> Specific(Put(CameraBody, "lookAt", Xyz("PointSelector", <<1, 0, 0>>)),
                         << Xyz("RotateTransform", <<0, 90, 0>>) >>),
       target |-> PointTarget("s1", <<1, 2, 3>>)],
      [body |-> CameraBody, target |-> SceneRef("s1")],
      [body |-> CameraBody, target |-> PointTarget("s1", <<1, 2, 3>>)],
      [body |-> Put(CameraBody, "lookAt", Xyz("PointSelector", <<1, 0, 0>>)),
       target |-> SceneRef("s1")],
      [body |-> Specific(CameraBody, << Xyz("TranslateTransform", <<1, 0, 2>>) >>),
       target |-> PointTarget("s1", <<1, 2, 3>>)],
      [body |-> Specific(CameraBody, << Xyz("RotateTransform", <<90, 0, 0>>) >>),
       target |-> SceneRef("s1")],
      [body |-> Specific(CameraBody, << >>), target |-> SceneRef("s1")] }

CameraFiles ==
    { Manifest(<< Scene("s1", << Anno("a1", a) >>) >>) : a \in CameraCases }

\* models with a ScaleTransform that is non-uniform, zero, negative or
\* lacks an axis, next to a rotation, a translation and a PointSelector
ScaleCases ==
    { Xyz("ScaleTransform", <<2, 3, 2>>),
      Xyz("ScaleTransform", <<0, 0, 0>>),
      Xyz("ScaleTransform", <<-1, -1, -1>>),
      JObj([type |-> JStr("ScaleTransform"), x |-> JNum(2), y |-> JNum(2)]) }

ScaleAnnotation(scale) ==
    Anno("a1", [body |-> Specific(ModelBody("m.glb"),
                                  << scale, Xyz("RotateTransform", <<90, 0, 0>>),
                                     Xyz("TranslateTransform", <<1, 0, 2>>) >>),
                target |-> PointTarget("s1", <<1, 2, 3>>)])

ScaleFiles ==
    { Manifest(<< Scene("s1", << ScaleAnnotation(scale) >>) >>) : scale \in ScaleCases }

\* lights with a lookAt and a PointSelector target, without and with a
\* colour
LightCases ==
    { JObj([id |-> JStr("sun"), type |-> JStr("DirectionalLight"),
            lookAt |-> Xyz("PointSelector", <<1, 0, 0>>)]),
      JObj([id |-> JStr("light"), type |-> JStr("AmbientLight"),
            color |-> JStr("#ff0000"),
            lookAt |-> JObj([type |-> JStr("Annotation"), id |-> JStr("a1")])]) }

LightFiles ==
    { Manifest(<< Scene("s1", << Anno("a1", [body |-> body,
                                             target |-> PointTarget("s1", <<1, 2, 3>>)]) >>) >>) :
        body \in LightCases }

\* each kind of body, bare and wrapped in a SpecificResource
DispatchBodies ==
    { ModelBody("m.glb"), CameraBody,
      JObj([id |-> JStr("cam"), type |-> JStr("OrthographicCamera")]),
      JObj([id |-> JStr("light"), type |-> JStr("AmbientLight")]),
      JObj([id |-> JStr("sun"), type |-> JStr("DirectionalLight")]) }

DispatchFiles ==
    { Manifest(<< Scene("s1", << Anno("a1", [body |-> body,
                                             target |-> SceneRef("s1")]) >>) >>) :
        body \in DispatchBodies \cup { Specific(b, << >>) : b \in DispatchBodies } }

\* a model whose transform list holds an entry without type: the asset is
\* loaded before the list is read
UntypedFiles ==
    { Manifest(<< Scene("s1", << Anno("a1",
          [body |-> Specific(ModelBody("m.glb"), << JObj([x |-> JNum(1)]) >>),
           target |-> SceneRef("s1")]) >>) >>) }

\* a camera whose lookAt names the annotation of a model placed away from
\* the origin, the camera's annotation before and after the model's
LookAtCamera(id, target) ==
    Anno(id, [body |-> Put(CameraBody, "lookAt",
                           JObj([type |-> JStr("Annotation"), id |-> JStr(target)])),
              target |-> SceneRef("s1")])

LookAtModel(id) ==
    Anno(id, [body |-> ModelBody("m.glb"), target |-> PointTarget("s1", <<1, 2, 3>>)])

LookAtFiles ==
    { Manifest(<< Scene("s1", << LookAtModel("a1"), LookAtCamera("a2", "a1") >>) >>),
      Manifest(<< Scene("s1", << LookAtCamera("a1", "a2"), LookAtModel("a2") >>) >>) }

\* two Scenes with the same label, and two Scenes whose AnnotationPages
\* have the same id
Labelled(scene, label) == Put(scene, "label", JObj([en |-> JList(<<JStr(label)>>)]))

SameNameFiles ==
    { Manifest(<< Labelled(Scene("s1", << LookAtModel("a1") >>), "plain"),
                  Labelled(Scene("s2", << LookAtCamera("a2", "a1") >>), "plain") >>),
      Manifest(<< Scene("s1", << Page("p1", << LookAtModel("a1") >>) >>),
                  Scene("s2", << Page("p1", << LookAtCamera("a2", "a1") >>) >>) >>) }

\* a Scene with a background colour and one model directly in its items
BackgroundFiles ==
    { Manifest(<< Put(Scene("s1", << LookAtModel("a1") >>),
                      "backgroundColor", JStr("#0000ff")) >>) }

\* a camera with a fieldOfView that is a number, zero, a word, an empty
\* object, followed by a model
FieldsOfView == { JNum(40), JNum(0), JStr("wide"), JObj(<<>>) }

FieldOfViewFiles ==
    { Manifest(<< Scene("s1", << Anno("a1", [body |-> Put(CameraBody, "fieldOfView", foV),
                                             target |-> SceneRef("s1")]),
                                 LookAtModel("a2") >>) >>) :
        foV \in FieldsOfView }

Files == {Unreadable} \cup NoSceneFiles \cup PageFiles \cup ShapeFiles
             \cup ProvenanceFiles \cup TranslateFiles \cup CameraFiles
             \cup ScaleFiles \cup LightFiles \cup DispatchFiles \cup UntypedFiles
             \cup LookAtFiles \cup SameNameFiles \cup BackgroundFiles
             \cup FieldOfViewFiles

AllOk == [u \in ModelURLs |-> "ok"]

Envs ==
    { [asset |-> AllOk, location |-> <<0, 0, 0>>],
      [asset |-> AllOk, location |-> <<0, 1, 0>>],
      [asset |-> [AllOk EXCEPT !["n.glb"] = "download_fails"], location |-> <<0, 0, 0>>],
      [asset |-> [AllOk EXCEPT !["m.glb"] = "decode_fails"], location |-> <<0, 0, 0>>] }

\* the Scene StringProperty defaults of src/modules/ui.py
ScenePropDefaults ==
    [ iiif_manifest_id |-> JStr("https://example.org/iiif/3d/manifest.json"),
      iiif_manifest_label |-> JStr("Scene"),
      iiif_manifest_summary |-> JStr("Scene exported from Blender") ]

\* the collections and the world of the file Blender starts with
HostCollections ==
    { <<>>, << [name |-> "Collection", parent |-> ROOT, props |-> <<>>] >> }

HostWorlds ==
    { [exists |-> TRUE, use_nodes |-> TRUE, background |-> <<13, 13, 13, 255>>],
      [exists |-> FALSE, use_nodes |-> FALSE, background |-> <<0, 0, 0, 0>>] }

NoCoord == [op |-> "none"]

Init ==
    /\ collections \in HostCollections
    /\ objects = <<>>
    /\ scene_props = ScenePropDefaults
    /\ world \in HostWorlds
    /\ active_collection = ROOT
    /\ log = <<>>
    /\ manifest = Unreadable
    /\ import_result = "none"
    /\ out_file = JNull
    /\ export_result = "none"
    /\ imports = 0
    /\ last_op = "none"
    /\ network \in Envs
    /\ coord = NoCoord

\* the state an operator call starts from
Start ==
    [ collections |-> collections, objects |-> objects, scene_props |-> scene_props,
      world |-> world, active_collection |-> active_collection, log |-> <<>>,
      exc |-> "none", returned |-> FALSE, result |-> "none" ]

Commit(st) ==
    /\ collections' = st.collections
    /\ objects' = st.objects
    /\ scene_props' = st.scene_props
    /\ world' = st.world
    /\ active_collection' = st.active_collection
    /\ log' = st.log

\* the state an import call that read file leaves
Imported(st, file) ==
    /\ Commit(st)
    /\ manifest' = file
    /\ import_result' = st.result

\* bpy.ops.import_scene.iiif_manifest(filepath = ...)
ImportExecute ==
    /\ imports < MaxImports
    /\ \E file \in Files : Imported(Call("import_execute", <<Start, network, file>>), file)
    /\ imports' = imports + 1
    /\ last_op' = "import"
    /\ UNCHANGED <<out_file, export_result, network, coord>>

\* the state an export call leaves: the file is written when it finishes
Exported(r) ==
    /\ Commit(r.st)
    /\ export_result' = r.st.result
    /\ out_file' = IF r.st.result = "FINISHED" THEN r.v ELSE out_file

\* bpy.ops.export_scene.iiif_manifest(filepath = ...)
ExportExecute ==
    /\ Exported(Call("export_execute", <<Start>>))
    /\ last_op' = "export"
    /\ UNCHANGED <<manifest, import_result, imports, network, coord>>

Next == ImportExecute \/ ExportExecute

Spec == Init /\ [][Next]_vars

-----------------------------------------------------------------------------
(* The Coordinates functions on their own: coord holds the input triple    *)
(* (field in), the value reached so far (field v) and the last step (op).  *)

MaxCoord == 2       \* positions have components in -MaxCoord..MaxCoord

Positions == (-MaxCoord..MaxCoord) \X (-MaxCoord..MaxCoord) \X (-MaxCoord..MaxCoord)

\* the whole multiples of 90 degrees in [-180, 180)
Angles == {-180, -90, 0, 90}
AngleTriples == Angles \X Angles \X Angles

EulerOrders == {"XYZ", "XZY", "YXZ", "YZX", "ZXY", "ZYX"}

InitCoord ==
    /\ collections = <<>>
    /\ objects = <<>>
    /\ scene_props = ScenePropDefaults
    /\ world \in HostWorlds
    /\ active_collection = ROOT
    /\ log = <<>>
    /\ manifest = Unreadable
    /\ import_result = "none"
    /\ out_file = JNull
    /\ export_result = "none"
    /\ imports = 0
    /\ last_op = "none"
    /\ network \in Envs
    /\ coord \in [op : {"iiif_position", "blender_vector"}, in : Positions,
                  v : Positions, via : {"tuple"}]
                 \cup [op : {"model_angles", "camera_angles"}, in : AngleTriples,
                       v : AngleTriples, via : {"tuple"}]
    /\ coord.v = coord.in

Step(from, to, via, value) ==
    /\ coord.op = from
    /\ coord' = [op |-> to, in |-> coord.in, v |-> value, via |-> via]
    /\ UNCHANGED sceneVars

\* a position of a manifest converted and converted back
PositionToBlender ==
    Step("iiif_position", "blender_of_iiif", "tuple",
         iiif_position_to_blender_vector(coord.v))

PositionBack ==
    Step("blender_of_iiif", "iiif_round_trip", "tuple",
         blender_vector_to_iiif_position(coord.v))

\* a location of the scene converted and converted back
VectorToIIIF ==
    Step("blender_vector", "iiif_of_blender", "tuple",
         blender_vector_to_iiif_position(coord.v))

VectorBack ==
    Step("iiif_of_blender", "blender_round_trip", "tuple",
         iiif_position_to_blender_vector(coord.v))

\* the angles of a RotateTransform converted as the importer does
ModelAnglesToEuler ==
    Step("model_angles", "model_rotation", "euler",
         model_transform_angles_to_blender_euler(coord.v))

CameraAnglesToEuler ==
    Step("camera_angles", "camera_rotation", "euler",
         camera_transform_angles_to_blender_euler(coord.v))

\* the exporter reads the rotation as a quaternion
\* (rotation_mode = "QUATERNION", then rotation_quaternion)
ReadAsQuaternion ==
    /\ coord.op \in {"model_rotation", "camera_rotation"}
    /\ coord.via = "euler"
    /\ coord' = [coord EXCEPT !.via = "quaternion",
                              !.v = Quaternion(Call("EulerToQuat",
                                                    <<coord.v.v, coord.v.order>>))]
    /\ UNCHANGED sceneVars

\* the same rotation held as an Euler of another order
ReadAsOtherEuler ==
    /\ coord.op \in {"model_rotation", "camera_rotation"}
    /\ coord.via = "euler"
    /\ \E order \in EulerOrders \ {coord.v.order} :
         coord' = [coord EXCEPT !.via = "other euler",
                                !.v = Call("QuatToEuler",
                                           <<Call("EulerToQuat",
                                                  <<coord.v.v, coord.v.order>>),
                                             order>>)]
    /\ UNCHANGED sceneVars

ModelRotationToAngles ==
    Step("model_rotation", "model_round_trip", coord.via,
         blender_rotation_to_model_transform_angles(coord.v))

CameraRotationToAngles ==
    Step("camera_rotation", "camera_round_trip", coord.via,
         blender_rotation_to_camera_transform_angles(coord.v))

NextCoord ==
    \/ PositionToBlender \/ PositionBack \/ VectorToIIIF \/ VectorBack
    \/ ModelAnglesToEuler \/ CameraAnglesToEuler
    \/ ReadAsQuaternion \/ ReadAsOtherEuler
    \/ ModelRotationToAngles \/ CameraRotationToAngles

SpecCoord == InitCoord /\ [][NextCoord]_vars

\* the rotation matrix of the Euler angles a triple of a model
\* RotateTransform stands for
ModelMatrix(angles) ==
    QuatToMat(Call("EulerToQuat",
                   <<model_transform_angles_to_blender_euler(angles).v, "YZX">>))

-----------------------------------------------------------------------------
(* Claims *)

C4_CameraAnglesReturned ==
    coord.op = "camera_round_trip" => coord.v = coord.in

\* what process_annotation and the item loops make of an item
SupportedBodyTypes ==
    { JStr("Model"), JStr("PerspectiveCamera"), JStr("AmbientLight"),
      JStr("DirectionalLight"), JStr("SpecificResource") }

IsScalar(j) == j.k \in {"num", "bool"}

\* an item of an unsupported shape: no type, or an Annotation whose body or
\* target is a number or a boolean, or whose body object has no type
UnsupportedShape(item) ==
    \/ ~IsDict(item)
    \/ ~Has(item, "type")
    \/ /\ Get(item, "type") = JStr("Annotation")
       /\ \/ IsScalar(Get(item, "body"))
          \/ IsScalar(Get(item, "target"))
          \/ IsDict(Get(item, "body")) /\ ~Has(Get(item, "body"), "type")

\* an Annotation whose body is an object of a type the importer has no
\* branch for
UnsupportedBodyType(item) ==
    /\ IsDict(item)
    /\ Get(item, "type") = JStr("Annotation")
    /\ IsDict(Get(item, "body"))
    /\ Has(Get(item, "body"), "type")
    /\ Get(Get(item, "body"), "type") \notin SupportedBodyTypes

Dropped(item, what) ==
    IF what = "shape" THEN UnsupportedShape(item) ELSE UnsupportedBodyType(item)

RECURSIVE WithoutSeq(_, _, _)
RECURSIVE Without(_, _)
\* the resource j with the items Dropped(_, what) taken out at every level
Without(j, what) ==
    IF IsDict(j) /\ Has(j, "items") /\ IsList(Get(j, "items"))
    THEN Put(j, "items", JList(WithoutSeq(Get(j, "items").l, 1, what)))
    ELSE j

WithoutSeq(items, i, what) ==
    IF i > Len(items) THEN <<>>
    ELSE IF Dropped(items[i], what) THEN WithoutSeq(items, i + 1, what)
    ELSE << Without(items[i], what) >> \o WithoutSeq(items, i + 1, what)

RECURSIVE CountSeq(_, _, _)
RECURSIVE Count(_, _)
\* the number of items Dropped(_, what) in j
Count(j, what) ==
    IF IsDict(j) /\ Has(j, "items") /\ IsList(Get(j, "items"))
    THEN CountSeq(Get(j, "items").l, 1, what)
    ELSE 0

CountSeq(items, i, what) ==
    IF i > Len(items) THEN 0
    ELSE (IF Dropped(items[i], what) THEN 1 ELSE Count(items[i], what))
         + CountSeq(items, i + 1, what)

HasScene(file) ==
    /\ file # Unreadable
    /\ Has(file, "items")
    /\ \E i \in 1..Len(Get(file, "items").l) :
         Get(Get(file, "items").l[i], "type") = JStr("Scene")

\* a session in which nothing was imported yet
Fresh == [Start EXCEPT !.collections = <<>>, !.objects = <<>>]

\* file is imported without an error when every asset can be fetched and
\* decoded
ImportsCleanly(file) ==
    Let(Call("import_execute",
             <<Fresh, [network EXCEPT !.asset = AllOk], file>>), LAMBDA ok :
    /\ ok.result = "FINISHED"
    /\ \A i \in 1..Len(ok.log) : ok.log[i].level # "ERROR")

ImportStep == imports' = imports + 1

Warnings(l, msg) ==
    Cardinality({i \in 1..Len(l) : l[i].level = "WARNING" /\ l[i].msg = msg})

Tree(colls) == [n \in 1..Len(colls) |-> << colls[n].name, colls[n].parent >>]

\* C5 as stated: when the download or the decode of an asset fails, the
\* other annotations, pages and scenes are imported and the import call
\* finishes with success.
C5_AssetFailureScoped ==
    (/\ last_op = "import"
     /\ HasScene(manifest)
     /\ ImportsCleanly(manifest))
    => import_result = "FINISHED"

\* C6 as stated: for a manifest with at least one Scene, an item of an
\* unsupported shape is skipped and the import call does not end in the
\* aborted outcome because of it.
C6_ShapeFailureScoped ==
    (/\ last_op = "import"
     /\ network.asset = AllOk
     /\ HasScene(manifest)
     /\ ImportsCleanly(Without(manifest, "shape")))
    => import_result # "CANCELLED"

\* C7: an Annotation whose body type is not a supported kind creates no
\* node and logs a warning, and the import goes on as if the Annotation
\* were not there: the nodes, the containers and the outcome are those of
\* importing the manifest without it, and a finished import has logged one
\* warning for every such Annotation.
C7_UnsupportedTypeSkipped ==
    [][ImportStep /\ manifest' # Unreadable =>
          Let(Call("import_execute",
                   <<Start, network, Without(manifest', "type")>>), LAMBDA ref :
          /\ objects' = ref.objects
          /\ Tree(collections') = Tree(ref.collections)
          /\ import_result' = ref.result
          /\ import_result' = "FINISHED" =>
                 Warnings(log', "body type not supported for Blender")
                     = Count(manifest', "type"))]_vars

C7_Witness ==
    /\ last_op = "import"
    /\ manifest = Manifest(<< Scene("s1", << Page("p1",
           << Anno("a1", [body |-> JObj([id |-> JStr("snd"), type |-> JStr("Sound")]),
                          target |-> SceneRef("s1")]),
              Anno("a2", [body |-> ModelBody("m.glb"),
                          target |-> SceneRef("s1")]) >>) >>) >>)
    /\ import_result = "FINISHED"
    /\ Len(objects) = 1
    /\ objects[1].props["iiif_id"] = JStr("a2")
    /\ Warnings(log, "body type not supported for Blender") = 1

\* C8 as stated: importing a manifest without a Scene ends in the failure
\* outcome CANCELLED, never in FINISHED.
C8_NoSceneCancelled ==
    (last_op = "import" /\ manifest # Unreadable /\ ~HasScene(manifest))
        => import_result = "CANCELLED"

\* C9: an import that finds no Scene in the manifest leaves the Manifest
\* container behind, tagged as Manifest and holding the manifest it was
\* created for, and has created no other container and no node.
C9_ManifestContainerStays ==
    [][ImportStep /\ manifest' # Unreadable /\ ~HasScene(manifest') =>
          /\ objects' = objects
          /\ CollectionNames(collections')
                 = CollectionNames(collections) \cup {MANIFEST_COLLECTION}
          /\ Let(collections'[CollectionIndex(collections', MANIFEST_COLLECTION)],
                 LAMBDA c :
                 /\ c.parent = ROOT
                 /\ PropGet(c.props, "iiif_type") = JStr("Manifest")
                 /\ PropGet(c.props, "iiif_manifest") = json_dumps(manifest'))]_vars

C9_Witness ==
    /\ last_op = "import"
    /\ manifest = Manifest(<<Canvas>>)
    /\ objects = <<>>
    /\ MANIFEST_COLLECTION \in CollectionNames(collections)
    /\ PropGet(collections[CollectionIndex(collections, MANIFEST_COLLECTION)].props,
               "iiif_type") = JStr("Manifest")

\* C10 as stated: export completes and writes a manifest for any scene
\* graph; a container without a type tag or a node without an enclosing
\* Scene never aborts it.
C10_ExportCompletes ==
    last_op = "export" => export_result = "FINISHED"

\* C1 as stated: import followed by export, with no edit in between, writes
\* a manifest equal to the one that was imported.
C1_RoundTrip ==
    (last_op = "export" /\ import_result = "FINISHED")
        => (export_result = "FINISHED" /\ out_file = manifest)

\* the geometry of a resource as export writes it
HasPointSelector(target) ==
    /\ IsDict(target)
    /\ Get(target, "type") = JStr("SpecificResource")
    /\ IsDict(Get(target, "selector"))
    /\ Get(Get(target, "selector"), "type") = JStr("PointSelector")

IsWrapped(body) == IsDict(body) /\ Get(body, "type") = JStr("SpecificResource")

TransformTypes(body) ==
    IF IsWrapped(body) /\ IsList(Get(body, "transform"))
    THEN {Get(Get(body, "transform").l[i], "type") :
              i \in 1..Len(Get(body, "transform").l)}
    ELSE {}

\* the annotations of the pages export has generated in file
ExportedAnnotations(file) ==
    IF ~IsDict(file) THEN {}
    ELSE UNION { UNION { {p.l[k] : k \in 1..Len(p.l)} :
                         p \in {Get(sc.l[j], "items") : j \in {j \in 1..Len(sc.l) :
                                  Get(sc.l[j], "type") = JStr("AnnotationPage")}} } :
                 sc \in {Get(Get(file, "items").l[i], "items") :
                             i \in 1..Len(Get(file, "items").l)} }

InScene(obj) ==
    /\ obj.coll \in CollectionNames(collections)
    /\ PropGet(collections[CollectionIndex(collections, obj.coll)].props, "iiif_type")
           = JStr("Scene")

Meshes == {n \in 1..Len(objects) : objects[n].type = "MESH"
                                   /\ ~IsNull(get_annotation(objects[n].props))}

ModelPosition(obj) == blender_vector_to_iiif_position(obj.location)

ModelRotation(obj) ==
    blender_rotation_to_model_transform_angles(read_quaternion(obj).rotation_quaternion)

ModelGeometryRule(obj, anno) ==
    /\ HasPointSelector(Get(anno, "target")) <=> ModelPosition(obj) # <<0, 0, 0>>
    /\ JStr("ScaleTransform") \in TransformTypes(Get(anno, "body"))
           <=> obj.scale # <<1, 1, 1>>
    /\ JStr("RotateTransform") \in TransformTypes(Get(anno, "body"))
           <=> ModelRotation(obj) # <<0, 0, 0>>
    /\ (/\ ModelPosition(obj) = <<0, 0, 0>>
        /\ obj.scale = <<1, 1, 1>>
        /\ ModelRotation(obj) = <<0, 0, 0>>)
       => /\ ~IsWrapped(Get(anno, "body"))
          /\ ~IsWrapped(Get(anno, "target"))
          /\ Get(Get(anno, "target"), "type") = JStr("Scene")

\* C11: for a model node export emits only the geometry that is not the
\* identity: a PointSelector iff the position is not (0,0,0), a
\* ScaleTransform iff the scale is not (1,1,1), a RotateTransform iff the
\* rotation is not (0,0,0), and a bare body with a bare Scene target when
\* all three are the identity; a finished export has written that
\* annotation for every model node of a Scene.
C11_ModelGeometryOmitted ==
    \A n \in Meshes :
        Let(get_model_annotation(Start, n, objects[n].coll), LAMBDA r :
        /\ r.st.exc = "none"
        /\ ModelGeometryRule(objects[n], r.v)
        /\ (last_op = "export" /\ export_result = "FINISHED" /\ InScene(objects[n]))
               => r.v \in ExportedAnnotations(out_file))

C11_Witness ==
    /\ last_op = "export"
    /\ export_result = "FINISHED"
    /\ \E n \in Meshes :
         /\ InScene(objects[n])
         /\ objects[n].scale = <<2, 2, 2>>
         /\ ModelRotation(objects[n]) = <<90, 0, 0>>
         /\ ModelPosition(objects[n]) = <<0, 0, 0>>
    /\ \E a \in ExportedAnnotations(out_file) :
         /\ TransformTypes(Get(a, "body"))
                = {JStr("ScaleTransform"), JStr("RotateTransform")}
         /\ ~HasPointSelector(Get(a, "target"))

Cameras == {n \in 1..Len(objects) : objects[n].type = "CAMERA"}

\* C12 as stated: for a camera node the exported target has no
\* PointSelector when the position is the origin, and the body has no
\* RotateTransform and no SpecificResource wrapper when the rotation that
\* export resolves is (0,0,0).
C12_CameraGeometryOmitted ==
    \A n \in Cameras :
        Let(get_camera_annotation(Start, n, objects[n].coll), LAMBDA r :
        r.st.exc = "none" =>
            /\ ModelPosition(objects[n]) = <<0, 0, 0>>
                   => ~HasPointSelector(Get(r.v, "target"))
            /\ camera_rotation_values(read_quaternion(objects[n]).rotation_quaternion)
                   = NumTriple(<<0, 0, 0>>)
                   => ~IsWrapped(Get(r.v, "body")))

\* a and b have the same fields with the same values, the fields of skip
\* left aside
SameOtherFields(a, b, skip) ==
    /\ IsDict(a)
    /\ IsDict(b)
    /\ (DOMAIN a.f) \ skip = (DOMAIN b.f) \ skip
    /\ \A key \in (DOMAIN a.f) \ skip : a.f[key] = b.f[key]

\* the annotation export writes for node n
ExportNode(n) ==
    IF objects[n].type = "MESH" THEN get_model_annotation(Start, n, objects[n].coll)
    ELSE IF objects[n].type = "LIGHT" THEN get_light_annotation(Start, n)
    ELSE get_camera_annotation(Start, n, objects[n].coll)

Stored == {n \in 1..Len(objects) : ~IsNull(get_annotation(objects[n].props))}

\* C13 as stated: export overlays only id, type and geometry (items, body
\* source, transform, selector, lookAt, fieldOfView) on the stored JSON:
\* every other field of the imported manifest and of a stored annotation
\* and its body comes out with its stored value, and none is added.
C13_ProvenanceKept ==
    /\ (/\ last_op = "export"
        /\ export_result = "FINISHED"
        /\ import_result = "FINISHED"
        /\ HasScene(manifest))
       => SameOtherFields(manifest, out_file, {"id", "type", "items"})
    /\ \A n \in Stored :
         Let(ExportNode(n), LAMBDA r :
         Let(get_annotation(objects[n].props), LAMBDA stored :
         r.st.exc = "none" =>
             /\ SameOtherFields(stored, r.v, {"id", "type", "body", "target"})
             /\ SameOtherFields(get_source_resource(Get(stored, "body")),
                                get_source_resource(Get(r.v, "body")),
                                {"id", "type", "lookAt", "fieldOfView"})))

\* the transforms of type type in the transform list of a wrapped body
TransformsOf(body, type) ==
    IF IsWrapped(body) /\ IsList(Get(body, "transform"))
    THEN SelectSeq(Get(body, "transform").l, LAMBDA t : Get(t, "type") = JStr(type))
    ELSE <<>>

\* toScene of the x, y, z of a resource
ToScene(xyz) == iiif_position_to_blender_vector(axes_named_values(xyz))

TranslationOffset(anno) ==
    IF Len(TransformsOf(Get(anno, "body"), "TranslateTransform")) = 1
    THEN ToScene(TransformsOf(Get(anno, "body"), "TranslateTransform")[1])
    ELSE <<0, 0, 0>>

SelectorOffset(anno) ==
    IF HasPointSelector(Get(anno, "target"))
    THEN ToScene(Get(Get(anno, "target"), "selector"))
    ELSE <<0, 0, 0>>

\* C14: the position of an imported model node is its position after the
\* asset import, plus toScene of the TranslateTransform when the transform
\* list holds exactly one, plus toScene of the target's PointSelector when
\* the target has one; with more than one TranslateTransform none is
\* applied and the import has logged a warning.
C14_ModelPosition ==
    \A n \in Meshes :
        Let(get_annotation(objects[n].props), LAMBDA anno :
        /\ objects[n].location
               = VecAdd(VecAdd(network.location, TranslationOffset(anno)),
                        SelectorOffset(anno))
        /\ (last_op = "import"
               /\ Len(TransformsOf(Get(anno, "body"), "TranslateTransform")) > 1)
               => Warnings(log, "multiple TranslateTransform not supported") >= 1)

C14_Witness ==
    /\ last_op = "import"
    /\ network.location = <<0, 1, 0>>
    /\ \E n \in Meshes :
         /\ TranslationOffset(get_annotation(objects[n].props)) = <<1, -2, 0>>
         /\ SelectorOffset(get_annotation(objects[n].props)) = <<1, -3, 2>>
         /\ objects[n].location = <<2, -4, 2>>

\* the value of an axis of a resource, 0 when the resource has none
AxisOrZero(xyz, axis) == IF Has(xyz, axis) THEN Get(xyz, axis).n ELSE 0

\* toScene of the point of a target's PointSelector, the origin for a
\* target without one
CameraPlace(target) ==
    IF HasPointSelector(target)
    THEN Let(Get(target, "selector"), LAMBDA sel :
         iiif_position_to_blender_vector(
             << AxisOrZero(sel, "x"), AxisOrZero(sel, "y"), AxisOrZero(sel, "z") >>))
    ELSE <<0, 0, 0>>

\* C15: the position of an imported camera node is toScene of the point of
\* its target's PointSelector, a missing axis counting as 0, and the
\* origin when the target is a bare Scene reference, whatever transform
\* wraps the camera body.
C15_CameraPosition ==
    \A n \in Cameras :
        ~IsNull(get_annotation(objects[n].props)) =>
            objects[n].location
                = CameraPlace(Get(get_annotation(objects[n].props), "target"))

C15_Witness ==
    /\ last_op = "import"
    /\ \E n \in Cameras :
         Let(get_annotation(objects[n].props), LAMBDA anno :
         /\ HasPointSelector(Get(anno, "target"))
         /\ ~Has(Get(Get(anno, "target"), "selector"), "x")
         /\ TransformTypes(Get(anno, "body")) # {}
         /\ objects[n].location = <<0, 0, 2>>)

\* the camera resource of a camera annotation's body
CameraData(body) == IF IsWrapped(body) THEN Get(body, "source") ELSE body

\* the transform list wrapping a camera annotation's body
CameraTransforms(body) ==
    IF IsWrapped(body) /\ IsList(Get(body, "transform"))
    THEN Get(body, "transform").l ELSE <<>>

\* the node has the orientation of a newly created node
DefaultOrientation(obj) ==
    /\ obj.rotation_mode = "XYZ"
    /\ obj.rotation_euler = <<0, 0, 0>>
    /\ obj.rotation_quaternion = IdentityQuat

\* the node looks along the line from its position to where look_at points
LooksAt(obj, look_at) ==
    /\ obj.rotation_mode = "QUATERNION"
    /\ IsTrackQuat(obj.rotation_quaternion)
    /\ Get(look_at, "type") = JStr("PointSelector")
           => obj.rotation_quaternion.track
                  = VecSub(ToScene(look_at), obj.location)

\* the node has the camera conversion of the angles of rotate
RotatedBy(obj, rotate) ==
    Let(camera_transform_angles_to_blender_euler(axes_named_values(rotate)), LAMBDA e :
    /\ obj.rotation_mode = e.order
    /\ obj.rotation_euler = e.v)

CameraOrientationRule(obj, anno, l) ==
    Let(CameraData(Get(anno, "body")), LAMBDA camera_data :
    Let(CameraTransforms(Get(anno, "body")), LAMBDA transforms :
    /\ (Has(camera_data, "lookAt") /\ transforms # <<>>)
           => /\ LooksAt(obj, Get(camera_data, "lookAt"))
              /\ obj.rotation_euler = <<0, 0, 0>>
              /\ Warnings(l, "ambiguous camera orientation; using lookAt") >= 1
    /\ (~Has(camera_data, "lookAt") /\ Len(transforms) = 1
            /\ Get(transforms[1], "type") = JStr("RotateTransform"))
           => RotatedBy(obj, transforms[1])
    /\ (~Has(camera_data, "lookAt") /\ transforms = <<>>)
           => /\ DefaultOrientation(obj)
              /\ Warnings(l, "camera has no orientation specified") >= 1))

\* C16: after an import, a camera whose body has a lookAt and whose
\* wrapping resource has transforms looks at the lookAt point, its Euler
\* angles untouched, and a warning is logged; a camera with only a
\* RotateTransform has the camera conversion of its angles; a camera with
\* neither has the orientation it was created with and a warning is logged.
C16_CameraOrientation ==
    last_op = "import" =>
        \A n \in Cameras :
            ~IsNull(get_annotation(objects[n].props)) =>
                CameraOrientationRule(objects[n], get_annotation(objects[n].props), log)

C16_Witness ==
    /\ last_op = "import"
    /\ \E n \in Cameras :
         Let(get_annotation(objects[n].props), LAMBDA anno :
         /\ Has(CameraData(Get(anno, "body")), "lookAt")
         /\ CameraTransforms(Get(anno, "body")) # <<>>
         /\ objects[n].rotation_quaternion = TrackQuat(<<0, 3, -2>>)
         /\ Warnings(log, "ambiguous camera orientation; using lookAt") = 1)

\* the factors of a ScaleTransform are unequal, a missing one counting as
\* 0, or not positive
UnsupportedScale(scale) ==
    Let(<< AxisOrZero(scale, "x"), AxisOrZero(scale, "y"), AxisOrZero(scale, "z") >>, LAMBDA f :
    \/ f[1] # f[2] \/ f[2] # f[3]
    \/ f[1] <= 0)

ScaleWarnings(l) ==
    Warnings(l, "non-uniform scale factors not supported")
        + Warnings(l, "non-positive scale not supported")

\* the node has the model conversion of the angles of rotate
ModelRotatedBy(obj, rotate) ==
    Let(model_transform_angles_to_blender_euler(axes_named_values(rotate)), LAMBDA e :
    /\ obj.rotation_mode = e.order
    /\ obj.rotation_euler = e.v)

\* rotation, translation, placement and provenance of anno are on the node
RestImported(obj, anno) ==
    /\ Len(TransformsOf(Get(anno, "body"), "RotateTransform")) = 1
           => ModelRotatedBy(obj, TransformsOf(Get(anno, "body"), "RotateTransform")[1])
    /\ obj.location = VecAdd(VecAdd(network.location, TranslationOffset(anno)),
                             SelectorOffset(anno))
    /\ InScene(obj)
    /\ "annotation_id" \in DOMAIN obj.props
    /\ obj.props["annotation_id"] = Get(anno, "id")

\* C17: after the import of a model whose ScaleTransform has unequal
\* factors, a missing factor counting as 0, or a factor that is zero or
\* negative, a warning is logged, the node has scale (1,1,1), and the
\* rotation, translation, placement and provenance of the annotation are
\* on the node; the node exists whenever the asset could be loaded.
C17_UnsupportedScaleSkipped ==
    last_op = "import" =>
        /\ \A n \in Meshes :
             Let(get_annotation(objects[n].props), LAMBDA anno :
             Let(TransformsOf(Get(anno, "body"), "ScaleTransform"), LAMBDA scales :
             (Len(scales) = 1 /\ UnsupportedScale(scales[1]))
                 => /\ objects[n].scale = <<1, 1, 1>>
                    /\ ScaleWarnings(log) >= 1
                    /\ RestImported(objects[n], anno)))
        /\ (manifest \in ScaleFiles /\ network.asset["m.glb"] = "ok")
               => /\ import_result = "FINISHED"
                  /\ \E n \in Meshes :
                       get_annotation(objects[n].props)
                           = Get(Get(manifest, "items").l[1], "items").l[1]

C17_Witness ==
    /\ last_op = "import"
    /\ network.location = <<0, 1, 0>>
    /\ \E n \in Meshes :
         /\ get_annotation(objects[n].props)
                = ScaleAnnotation(Xyz("ScaleTransform", <<2, 3, 2>>))
         /\ objects[n].scale = <<1, 1, 1>>
         /\ objects[n].location = <<2, -4, 2>>
         /\ objects[n].rotation_euler # <<0, 0, 0>>
         /\ Warnings(log, "non-uniform scale factors not supported") = 1

-----------------------------------------------------------------------------
(* the json_patterns functions applied to JSON values *)

MaxLen == 2         \* lists have at most MaxLen elements

Atoms ==
    { JNull, JStr("s1"), JStr(""), JNum(5), JBool(TRUE), JObj(<<>>),
      JObj([id |-> JStr("s1"), type |-> JStr("Scene")]), JList(<<>>) }

Lists == UNION { [1..k -> Atoms] : k \in 0..MaxLen }

Values == Atoms \cup { JList(l) : l \in Lists }

DefaultTypes == {JNull, JStr("Scene")}

NoValue == [k |-> "no value"]

InitPatterns ==
    /\ collections = <<>>
    /\ objects = <<>>
    /\ scene_props = ScenePropDefaults
    /\ world \in HostWorlds
    /\ active_collection = ROOT
    /\ log = <<>>
    /\ manifest = Unreadable
    /\ import_result = "none"
    /\ out_file = JNull
    /\ export_result = "none"
    /\ imports = 0
    /\ last_op = "none"
    /\ network \in Envs
    /\ coord \in [op : {"json_value"}, in : Values, default_type : {JNull},
                  v : {NoValue}, exc : {"none"}]

\* the state a call of a json_patterns function on coord.in leaves
Applied(op, default_type, st, value) ==
    /\ coord.op = "json_value"
    /\ coord' = [op |-> op, in |-> coord.in, default_type |-> default_type,
                 v |-> value, exc |-> st.exc]
    /\ log' = st.log
    /\ UNCHANGED <<collections, objects, scene_props, world, active_collection,
                   manifest, import_result, out_file, export_result, imports,
                   last_op, network>>

ForceAsSingleton ==
    Applied("force_as_singleton", JNull, SingletonLog(Start, coord.in),
            force_as_singleton(coord.in))

ForceAsList ==
    Applied("force_as_list", JNull, Start, JList(force_as_list(coord.in)))

ForceAsObject ==
    \E default_type \in DefaultTypes :
        IF force_as_object_raises(coord.in)
        THEN Applied("force_as_object", default_type, Raise(Start, "ValueError"), NoValue)
        ELSE Applied("force_as_object", default_type, Start,
                     force_as_object(coord.in, default_type))

NextPatterns == ForceAsSingleton \/ ForceAsList \/ ForceAsObject

SpecPatterns == InitPatterns /\ [][NextPatterns]_vars

\* C18: force_as_singleton returns null for null and for the empty list,
\* the element of a one-element list, the first element of a longer list
\* with one warning logged, and any other value unchanged; it logs nothing
\* unless the list has more than one element.
C18_Singleton ==
    coord.op = "force_as_singleton" =>
        /\ (IsNull(coord.in) \/ coord.in = JList(<<>>)) => coord.v = JNull
        /\ (IsList(coord.in) /\ Len(coord.in.l) = 1) => coord.v = coord.in.l[1]
        /\ (IsList(coord.in) /\ Len(coord.in.l) > 1)
               => /\ coord.v = coord.in.l[1]
                  /\ Len(log) = 1
                  /\ Warnings(log, "list coerced to singleton") = 1
        /\ ~IsList(coord.in) => coord.v = coord.in
        /\ ~(IsList(coord.in) /\ Len(coord.in.l) > 1) => log = <<>>
        /\ coord.exc = "none"

C18_Witness ==
    /\ coord.op = "force_as_singleton"
    /\ coord.in = JList(<< JStr("s1"), JNum(5) >>)
    /\ coord.v = JStr("s1")
    /\ Warnings(log, "list coerced to singleton") = 1

\* C19: force_as_object returns null and an object as they are, turns a
\* string s into {id: s, type: default_type}, without type when no default
\* type is given, and raises for a number, a boolean or a list, returning
\* no value.
C19_Object ==
    coord.op = "force_as_object" =>
        /\ (IsNull(coord.in) \/ IsDict(coord.in))
               => coord.exc = "none" /\ coord.v = coord.in
        /\ (IsStr(coord.in) /\ coord.default_type # JNull)
               => /\ coord.exc = "none"
                  /\ coord.v = JObj([id |-> coord.in, type |-> coord.default_type])
        /\ (IsStr(coord.in) /\ coord.default_type = JNull)
               => coord.exc = "none" /\ coord.v = JObj([id |-> coord.in])
        /\ (IsNum(coord.in) \/ coord.in.k = "bool" \/ IsList(coord.in))
               => coord.exc # "none" /\ coord.v = NoValue

C19_Witness ==
    /\ coord.op = "force_as_object"
    /\ coord.in = JStr("s1")
    /\ coord.default_type = JNull
    /\ coord.v = JObj([id |-> JStr("s1")])

-----------------------------------------------------------------------------
(* src/modules/navigation.py *)

collection_types == {"Manifest", "Scene", "AnnotationPage", "Annotation"}

parent_type_dict ==
    [Annotation |-> "AnnotationPage", AnnotationPage |-> "Scene", Scene |-> "Manifest"]

\* the for statement of _find_enclosing_resource opens "(" and "[" that
\* nothing closes: compiling the module raises SyntaxError, and no function
\* of it can be called
navigation_compiles == FALSE

None == JNull

Found(coll) == [exc |-> "none", v |-> JStr(coll)]

\* _find_resources_by_type, for a type of collection_types: the names of the
\* collections of that type, in the order of bpy.data.collections
find_resources_by_type(colls, what_iiif_type) ==
    SelectSeq(DataCollections([collections |-> colls]),
              LAMBDA name : PropGet(CollectionProps([collections |-> colls], name),
                                    "iiif_type") = JStr(what_iiif_type))

\* the collections of the sequence that have a child with iiif_id search_id
parents_of_id(colls, names, search_id) ==
    SelectSeq(names, LAMBDA name :
        \E n \in 1..Len(colls) :
            /\ colls[n].parent = name
            /\ PropGet(colls[n].props, "iiif_id") = search_id)

\* the body of _find_enclosing_resource, read with the brackets of its for
\* statement closed before the colon; iiif_resource is the properties of
\* the resource
RECURSIVE find_enclosing_resource(_, _, _)
find_enclosing_resource(colls, iiif_resource, enclosing_type) ==
    Let(PropGet(iiif_resource, "iiif_id"), LAMBDA search_id :
    Let(PropGet(iiif_resource, "iiif_type"), LAMBDA iiif_type :
    IF IsNull(search_id) THEN [exc |-> "none", v |-> None]
       ELSE IF ~(IsStr(iiif_type) /\ iiif_type.s \in DOMAIN parent_type_dict)
       THEN [exc |-> "KeyError", v |-> [k |-> "no value"]]
       ELSE Let(parents_of_id(colls,
                    find_resources_by_type(colls, parent_type_dict[iiif_type.s]),
                    search_id), LAMBDA found :
            IF found = <<>> THEN [exc |-> "none", v |-> None]
               ELSE IF PropGet(CollectionProps([collections |-> colls], found[1]),
                               "iiif_type") = JStr(enclosing_type)
               THEN Found(found[1])
               ELSE find_enclosing_resource(colls,
                        CollectionProps([collections |-> colls], found[1]),
                        enclosing_type))))

\* a call of _find_enclosing_resource from another module, which loads
\* navigation.py first
call_find_enclosing_resource(colls, iiif_resource, enclosing_type) ==
    IF ~navigation_compiles
    THEN [exc |-> "SyntaxError", v |-> [k |-> "no value"]]
    ELSE find_enclosing_resource(colls, iiif_resource, enclosing_type)

\* getTargetScene
getTargetScene(colls, iiif_resource) ==
    call_find_enclosing_resource(colls, iiif_resource, "Scene")

Tagged(name, parent, type) ==
    [name |-> name, parent |-> parent,
     props |-> [iiif_id |-> JStr(name), iiif_type |-> JStr(type)]]

Untagged(name, parent) == [name |-> name, parent |-> parent, props |-> <<>>]

\* a whole tree, a tree without Manifest, a tree in the host collection
\* with untagged and half-tagged members, and no collection at all
Forests ==
    { << Tagged("man", ROOT, "Manifest"), Tagged("s1", "man", "Scene"),
         Tagged("p1", "s1", "AnnotationPage"), Tagged("a1", "p1", "Annotation") >>,
      << Tagged("s1", ROOT, "Scene"), Tagged("p1", "s1", "AnnotationPage"),
         Tagged("a1", "p1", "Annotation") >>,
      << Untagged("Collection", ROOT), Tagged("man", "Collection", "Manifest"),
         Tagged("s1", "man", "Scene"), Untagged("plain", "s1"),
         [name |-> "idonly", parent |-> "s1", props |-> [iiif_id |-> JStr("idonly")]] >>,
      << >> }

\* resources that are in no collection
Unlinked ==
    { [name |-> "u", parent |-> "<unlinked>", props |-> props] :
        props \in { <<>>, [iiif_type |-> JStr("Scene")], [iiif_id |-> JStr("a9")],
                    [iiif_id |-> JStr("a9"), iiif_type |-> JStr("Annotation")] } }

InitNavigation ==
    /\ collections \in Forests
    /\ objects = <<>>
    /\ scene_props = ScenePropDefaults
    /\ world \in HostWorlds
    /\ active_collection = ROOT
    /\ log = <<>>
    /\ manifest = Unreadable
    /\ import_result = "none"
    /\ out_file = JNull
    /\ export_result = "none"
    /\ imports = 0
    /\ last_op = "none"
    /\ network \in Envs
    /\ coord \in [op : {"resource"},
                  node : {collections[n] : n \in 1..Len(collections)} \cup Unlinked,
                  enclosing_type : collection_types,
                  v : {[k |-> "no value"]}, exc : {"none"}]

Looked(op, enclosing_type, r) ==
    /\ coord.op = "resource"
    /\ coord' = [op |-> op, node |-> coord.node, enclosing_type |-> enclosing_type,
                 v |-> r.v, exc |-> r.exc]
    /\ UNCHANGED sceneVars

FindEnclosingResource ==
    Looked("_find_enclosing_resource", coord.enclosing_type,
           call_find_enclosing_resource(collections, coord.node.props,
                                        coord.enclosing_type))

GetTargetScene ==
    Looked("getTargetScene", "Scene", getTargetScene(collections, coord.node.props))

\* _find_child_resources_by_type: the children of parent_collection that
\* have the type tag
find_child_resources_by_type(colls, parent_collection, what_iiif_type) ==
    [exc |-> "none",
     v |-> [k |-> "collections",
            names |-> {colls[n].name : n \in
                          {i \in 1..Len(colls) :
                              /\ colls[i].parent = parent_collection
                              /\ PropGet(colls[i].props, "iiif_type")
                                     = JStr(what_iiif_type)}}]]

\* a call of a function of navigation.py from another module
call_navigation(r) ==
    IF ~navigation_compiles THEN [exc |-> "SyntaxError", v |-> [k |-> "no value"]]
    ELSE r

getScenes(colls, manifest_collection) ==
    call_navigation(find_child_resources_by_type(colls, manifest_collection, "Scene"))

getAnnotationPages(colls, scene_collection) ==
    call_navigation(find_child_resources_by_type(colls, scene_collection,
                                                 "AnnotationPage"))

\* getAnnotations reads scene_collection, a name bound neither in the
\* function nor in the module: NameError
getAnnotations(colls, page_collection) ==
    call_navigation([exc |-> "NameError", v |-> [k |-> "no value"]])

GetScenes ==
    Looked("getScenes", coord.enclosing_type, getScenes(collections, coord.node.name))

GetAnnotationPages ==
    Looked("getAnnotationPages", coord.enclosing_type,
           getAnnotationPages(collections, coord.node.name))

GetAnnotations ==
    Looked("getAnnotations", coord.enclosing_type,
           getAnnotations(collections, coord.node.name))

NextNavigation ==
    \/ FindEnclosingResource \/ GetTargetScene
    \/ GetScenes \/ GetAnnotationPages \/ GetAnnotations

SpecNavigation == InitNavigation /\ [][NextNavigation]_vars

\* the nearest collection of the given type on the parent links from parent
RECURSIVE NearestAncestor(_, _, _)
NearestAncestor(colls, parent, type) ==
    IF parent \notin CollectionNames(colls) THEN None
    ELSE Let(colls[CollectionIndex(colls, parent)], LAMBDA c :
         IF PropGet(c.props, "iiif_type") = JStr(type) THEN JStr(c.name)
            ELSE NearestAncestor(colls, c.parent, type))

\* C20: _find_enclosing_resource returns the nearest ancestor collection
\* whose type tag is the requested type, and None when there is none,
\* without raising, whatever id, type tag or parent the resource has.
C20_EnclosingResource ==
    coord.op \in {"_find_enclosing_resource", "getTargetScene"} =>
        /\ coord.exc = "none"
        /\ coord.v = NearestAncestor(collections, coord.node.parent,
                                     coord.enclosing_type)

\* the immediate children of the container that have the type tag
ChildrenOfType(colls, container, type) ==
    {colls[n].name : n \in {i \in 1..Len(colls) :
                               /\ colls[i].parent = container
                               /\ PropGet(colls[i].props, "iiif_type") = JStr(type)}}

ChildTypeOf == [getScenes |-> "Scene", getAnnotationPages |-> "AnnotationPage",
                getAnnotations |-> "Annotation"]

\* C21: getScenes, getAnnotationPages and getAnnotations return, without
\* raising, exactly the immediate children of the container tagged Scene,
\* AnnotationPage and Annotation respectively.
C21_ChildrenOfType ==
    coord.op \in DOMAIN ChildTypeOf =>
        /\ coord.exc = "none"
        /\ coord.v = [k |-> "collections",
                      names |-> ChildrenOfType(collections, coord.node.name,
                                               ChildTypeOf[coord.op])]

Lights == {n \in 1..Len(objects) : objects[n].type = "LIGHT"}

\* C22: a light node imported from an annotation with a lookAt and a target
\* carries both as provenance, and its exported annotation has a lookAt
\* and a target equal to the imported ones.
C22_LightOrientationKept ==
    \A n \in Lights :
        Let(get_annotation(objects[n].props), LAMBDA anno :
        (IsDict(Get(anno, "body")) /\ Has(Get(anno, "body"), "lookAt")
             /\ Has(anno, "target"))
            => /\ PropGet(objects[n].props, "original_lookAt")
                      = json_dumps(Get(Get(anno, "body"), "lookAt"))
               /\ PropGet(objects[n].props, "original_target")
                      = json_dumps(Get(anno, "target"))
               /\ Let(get_light_annotation(Start, n), LAMBDA r :
                  /\ r.st.exc = "none"
                  /\ Get(Get(r.v, "body"), "lookAt") = Get(Get(anno, "body"), "lookAt")
                  /\ Get(r.v, "target") = Get(anno, "target")))

\* the rotation a node shows: the value of the representation its mode names
ShownRotation(obj) ==
    IF obj.rotation_mode = "QUATERNION" THEN obj.rotation_quaternion
    ELSE obj.rotation_euler

\* position, rotation, rotation mode, scale, tags and provenance of a node
NodeState(obj) ==
    [location |-> obj.location, rotation_mode |-> obj.rotation_mode,
     rotation |-> ShownRotation(obj), scale |-> obj.scale, props |-> obj.props,
     coll |-> obj.coll, name |-> obj.name]

ExportStep == last_op' = "export"

\* C23: an export changes no node's position, rotation, rotation mode,
\* scale, tags or provenance and no container, and an export that follows
\* a finished export with nothing in between writes the same manifest.
C23_ExportChangesNothing ==
    [][ExportStep =>
          /\ Len(objects') = Len(objects)
          /\ \A n \in 1..Len(objects) : NodeState(objects'[n]) = NodeState(objects[n])
          /\ collections' = collections
          /\ scene_props' = scene_props
          /\ (last_op = "export" /\ export_result = "FINISHED")
                 => (export_result' = "FINISHED" /\ out_file' = out_file)]_vars

\* the kind of node a body type stands for
NodeKind ==
    [Model |-> "MESH", PerspectiveCamera |-> "CAMERA", OrthographicCamera |-> "CAMERA",
     AmbientLight |-> "LIGHT", DirectionalLight |-> "LIGHT"]

\* the body of the one annotation of a file of DispatchFiles
OnlyBody(file) == Get(Get(Get(file, "items").l[1], "items").l[1], "body")

\* C24: the import of an annotation whose body is a Model, a
\* PerspectiveCamera, an OrthographicCamera, an AmbientLight or a
\* DirectionalLight, bare or wrapped in one SpecificResource, finishes and
\* leaves one node of the kind of the body.
C24_DispatchBothShapes ==
    (last_op = "import" /\ manifest \in DispatchFiles
        /\ network.asset["m.glb"] = "ok")
        => /\ import_result = "FINISHED"
           /\ Len(objects) = 1
           /\ objects[1].type
                  = NodeKind[Get(CameraData(OnlyBody(manifest)), "type").s]

\* the Model resource new_model_annotation builds from a node
ModelResourceOf(obj) ==
    JObj([id |-> IF "iiif_id" \in DOMAIN obj.props THEN obj.props["iiif_id"]
                 ELSE JStr("https://example.com/model_id_unknown"),
          type |-> JStr("Model"),
          format |-> IF "iiif_format" \in DOMAIN obj.props THEN obj.props["iiif_format"]
                     ELSE JStr("application/binary")])

\* C25: for a mesh node without stored annotation, get_model_annotation
\* completes and returns an Annotation whose body is the Model resource
\* built from the node.
C25_NewModelAnnotation ==
    \A n \in 1..Len(objects) :
        (objects[n].type = "MESH" /\ IsNull(get_annotation(objects[n].props)))
            => Let(get_model_annotation(Start, n, objects[n].coll), LAMBDA r :
               /\ r.st.exc = "none"
               /\ Get(r.v, "type") = JStr("Annotation")
               /\ get_source_resource(Get(r.v, "body")) = ModelResourceOf(objects[n]))

\* the number of Annotations with the id among the items of j and below
RECURSIVE Occurrences(_, _), OccurrencesSeq(_, _, _)
Occurrences(j, id) ==
    IF IsDict(j) /\ Has(j, "items") /\ IsList(Get(j, "items"))
    THEN OccurrencesSeq(Get(j, "items").l, 1, id)
    ELSE 0

OccurrencesSeq(items, i, id) ==
    IF i > Len(items) THEN 0
    ELSE (IF IsDict(items[i]) /\ Get(items[i], "type") = JStr("Annotation")
          THEN (IF Get(items[i], "id") = id THEN 1 ELSE 0)
          ELSE Occurrences(items[i], id))
         + OccurrencesSeq(items, i + 1, id)

\* C26: in the manifest a finished export writes, no annotation id occurs
\* more than once, and the annotation of every node of a Scene occurs once.
C26_AnnotationIdsUnique ==
    (last_op = "export" /\ export_result = "FINISHED")
        => /\ \A i \in 1..Len(AnnotationIds) :
                Occurrences(out_file, JStr(AnnotationIds[i])) <= 1
           /\ \A n \in Meshes \cup Cameras :
                InScene(objects[n])
                    => Occurrences(out_file,
                                   Get(get_annotation(objects[n].props), "id")) = 1

\* the nodes carrying the annotation id, and the centre of their bounds
NodesOf(id) ==
    {n \in 1..Len(objects) :
        "annotation_id" \in DOMAIN objects[n].props
        /\ objects[n].props["annotation_id"] = id}

Middle(S) == (MinOf(S) + MaxOf(S)) \div 2

Centroid(id) ==
    << Middle({objects[n].location[1] : n \in NodesOf(id)}),
       Middle({objects[n].location[2] : n \in NodesOf(id)}),
       Middle({objects[n].location[3] : n \in NodesOf(id)}) >>

LookAtOf(obj) ==
    GetD(CameraData(Get(get_annotation(obj.props), "body")), "lookAt", JNull)

\* C27: after a finished import, a camera whose lookAt names an Annotation
\* that has nodes looks from its position toward the centre of the bounds
\* of those nodes, wherever that annotation stands among the items.
C27_LookAtAnnotation ==
    (last_op = "import" /\ import_result = "FINISHED") =>
        \A n \in Cameras :
            ("iiif_annotation" \in DOMAIN objects[n].props
             /\ IsDict(LookAtOf(objects[n]))
             /\ Get(LookAtOf(objects[n]), "type") = JStr("Annotation")
             /\ NodesOf(Get(LookAtOf(objects[n]), "id")) # {})
                => objects[n].rotation_quaternion
                       = TrackQuat(VecSub(Centroid(Get(LookAtOf(objects[n]), "id")),
                                          objects[n].location))

\* the case of C27 that holds: the annotation stands before the camera's
C27_LookAtEarlier ==
    /\ last_op = "import" /\ import_result = "FINISHED"
    /\ \E n \in Cameras :
         /\ "iiif_annotation" \in DOMAIN objects[n].props
         /\ IsDict(LookAtOf(objects[n]))
         /\ Get(LookAtOf(objects[n]), "id") = JStr("a1")
         /\ objects[n].rotation_quaternion = TrackQuat(<<1, -3, 2>>)

\* the Scenes of a manifest, the containers tagged Scene under the Manifest
\* container, and the Scene container a node is held by
ScenesOf(m) ==
    SelectSeq(items_of(m), LAMBDA item : IsDict(item) /\ Get(item, "type") = JStr("Scene"))

SceneContainers ==
    {c \in 1..Len(collections) :
        /\ collections[c].parent = MANIFEST_COLLECTION
        /\ PropGet(collections[c].props, "iiif_type") = JStr("Scene")}

HolderOf(obj) ==
    {c \in SceneContainers :
        \/ obj.coll = collections[c].name
        \/ \E p \in 1..Len(collections) :
              /\ collections[p].name = obj.coll
              /\ collections[p].parent = collections[c].name}

\* C28: after a finished import the Manifest container has one Scene
\* container for every Scene of the manifest, each with that Scene's
\* provenance, and every node with an annotation is held by the container
\* of the Scene whose items hold that annotation.
C28_StrictForest ==
    (last_op = "import" /\ import_result = "FINISHED" /\ IsDict(manifest)) =>
        /\ Cardinality(SceneContainers) = Len(ScenesOf(manifest))
        /\ \A i \in 1..Len(ScenesOf(manifest)) :
              \E c \in SceneContainers :
                  get_scene(collections[c].props) = ScenesOf(manifest)[i]
        /\ \A n \in 1..Len(objects) :
              ~IsNull(get_annotation(objects[n].props))
                  => \E c \in HolderOf(objects[n]) :
                        Occurrences(get_scene(collections[c].props),
                                    Get(get_annotation(objects[n].props), "id")) = 1

\* the case of C28 that holds: two Scenes with different names
C28_DistinctNames ==
    /\ last_op = "import" /\ import_result = "FINISHED"
    /\ Cardinality(SceneContainers) = 2
    /\ Len(ScenesOf(manifest)) = 2

\* every container is tagged and every node is a mesh with an annotation
OnlyStoredModels ==
    /\ \A c \in 1..Len(collections) : ~IsNull(PropGet(collections[c].props, "iiif_type"))
    /\ \A n \in 1..Len(objects) : n \in Meshes

\* the Scene with the id among the items of an exported manifest
ExportedScene(file, id) ==
    IF ~IsDict(file) THEN {}
    ELSE {item \in {items_of(file)[i] : i \in 1..Len(items_of(file))} :
             IsDict(item) /\ Get(item, "id") = id}

BackgroundRule(stored, file) ==
    /\ ExportedScene(file, Get(stored, "id")) # {}
    /\ \A scene \in ExportedScene(file, Get(stored, "id")) :
          /\ Has(scene, "backgroundColor") <=> Has(stored, "backgroundColor")
          /\ (Has(stored, "backgroundColor") /\ world.exists /\ world.use_nodes)
                 => Get(scene, "backgroundColor") = JStr(rgba_to_hex(world.background))

\* C29: an export of a graph of tagged containers and stored models
\* finishes, and every Scene container's Scene is written with
\* backgroundColor exactly when its provenance has one, the value being the
\* hex form of the world background colour.
C29_BackgroundColour ==
    (last_op = "export" /\ OnlyStoredModels) =>
        /\ export_result = "FINISHED"
        /\ \A c \in SceneContainers :
              BackgroundRule(get_scene(collections[c].props), out_file)

\* the case of C29 that holds: a Scene without backgroundColor
C29_NoBackground ==
    /\ last_op = "export" /\ OnlyStoredModels /\ export_result = "FINISHED"
    /\ \E c \in SceneContainers :
          /\ ~Has(get_scene(collections[c].props), "backgroundColor")
          /\ BackgroundRule(get_scene(collections[c].props), out_file)

\* the first item of the first Scene of the manifest, when that is the
\* Annotation of a PerspectiveCamera
FirstItems ==
    IF IsDict(manifest) /\ ~items_raise(manifest) /\ Len(ScenesOf(manifest)) >= 1
          /\ ~items_raise(ScenesOf(manifest)[1])
    THEN items_of(ScenesOf(manifest)[1]) ELSE <<>>

FirstIsCamera ==
    /\ Len(FirstItems) >= 1
    /\ IsDict(FirstItems[1])
    /\ Get(FirstItems[1], "type") = JStr("Annotation")
    /\ IsDict(Get(FirstItems[1], "body"))
    /\ Get(Get(FirstItems[1], "body"), "type") = JStr("PerspectiveCamera")

NotCastable(foV) == ~IsNull(foV) /\ float_raises(foV)

FieldOfViewOf(camera_data) ==
    Let(GetD(camera_data, "fieldOfView", JNull), LAMBDA foV :
    IF IsNum(foV) /\ foV.n # 0 THEN foV.n ELSE 53)

LoggedErrors(l, msg) ==
    Cardinality({i \in 1..Len(l) : l[i].level = "ERROR" /\ l[i].msg = msg})

FieldOfViewRule(camera_data) ==
    /\ \E n \in Cameras :
          /\ get_annotation(objects[n].props) = FirstItems[1]
          /\ objects[n].data.angle_y = FieldOfViewOf(camera_data)
    /\ NotCastable(GetD(camera_data, "fieldOfView", JNull))
          => /\ LoggedErrors(log, "fieldOfView cannot be cast to number") >= 1
             /\ import_result = "FINISHED"

\* C30: after the import of a manifest whose first Annotation has a
\* PerspectiveCamera as body, the camera node of that annotation has the
\* manifest's fieldOfView as its vertical field of view when that is a
\* number other than 0, and 53 when it is absent, 0 or no number; in the
\* last case an error is logged and the import finishes.
C30_FieldOfView ==
    (last_op = "import" /\ FirstIsCamera)
        => FieldOfViewRule(Get(FirstItems[1], "body"))

\* the cases of C30 that hold: a number, 0, and an empty object
C30_NumberOrDefault ==
    /\ last_op = "import" /\ FirstIsCamera
    /\ FieldOfViewRule(Get(FirstItems[1], "body"))
    /\ GetD(Get(FirstItems[1], "body"), "fieldOfView", JNull) = JNum(40)

C30_EmptyObject ==
    /\ last_op = "import" /\ FirstIsCamera
    /\ FieldOfViewRule(Get(FirstItems[1], "body"))
    /\ GetD(Get(FirstItems[1], "body"), "fieldOfView", JNull) = JObj(<<>>)

====
